---- MODULE Spec2Model ----
(***************************************************************************)
(* Proxy-bidding engine and fixed-price signup capacity manager of the     *)
(* auction backend (backend/auctions/views.py).                            *)
(*                                                                         *)
(* Money is counted in cents (Decimal with two places): 1000 is 10.00.     *)
(* One published bidding item (bid_item, proxies, bids) and one published  *)
(* fixed-price item (fp_item, signups) are modelled.  Every handler runs   *)
(* inside transaction.atomic() after Item.objects.select_for_update(), so  *)
(* a handler is one atomic step.                                           *)
(*                                                                         *)
(* updated_at / created_at stamps are only ever compared with each other   *)
(* (order_by, the sort key), so a table keeps them as ranks 1..n: a write  *)
(* stamps its row with a time later than every stamp of the table and the  *)
(* stamps are then renumbered in the same order.                           *)
(***************************************************************************)
EXTENDS Integers, Sequences, FiniteSets, TLC

VARIABLES
    bid_item,   \* Item row of the bidding item: quantity_total, opening_min_bid, bid_increment
    proxies,    \* ProxyBid rows of the bidding item, keyed by bidder
    bids,       \* Bid (audit) rows of the bidding item: the top row
    fp_item,    \* Item row of the fixed-price item: quantity_total, quantity_sold
    signups,    \* Signup rows of the fixed-price item, keyed by user
    last,       \* the latest request and its response
    inflight    \* the database backend and every worker's open transaction

vars == <<bid_item, proxies, bids, fp_item, signups, last, inflight>>

(***************************************************************************)
(* Bounds of the model.                                                    *)
(***************************************************************************)
MaxK == 2          \* quantity_total of the bidding item ranges over 1..MaxK
MaxCapacity == 4   \* quantity_total of the fixed-price item ranges over 1..MaxCapacity
MaxQty == 3        \* requested signup quantities range over 0..MaxQty
MaxPriceUnits == 120   \* standard_increment is applied to 0.00, 10.00, ... MaxPriceUnits * 10.00

Users == {"X", "Y"}
Bidders == Users \cup {"Z"}            \* every account that can bid; Z bids only in LateBidderSpec
Amounts == {500, 1000, 1500, 2000}     \* amounts submitted to place_bid
AccountAmounts == {500, 2000}          \* amounts submitted from the account page
OpeningChoices == {<<>>, <<1000>>}     \* opening_min_bid: NULL or 10.00
IncrementChoices == {<<>>, <<500>>}    \* bid_increment: NULL or 5.00

Max(a, b) == IF a >= b THEN a ELSE b
Min(a, b) == IF a <= b THEN a ELSE b

\* K_total = max(1, int(item.quantity_total or 1))
K_total == Max(1, bid_item.quantity_total)

(***************************************************************************)
(* Increment policy.                                                       *)
(***************************************************************************)
\* every price below 100.00 in one 5.00 tier
standard_increment_flat(current) ==
    IF current < 10000 THEN 500
    ELSE IF current < 25000 THEN 1000
    ELSE IF current < 50000 THEN 2500
    ELSE IF current < 100000 THEN 5000
    ELSE 10000

\* every tier boundary left in the lower tier
standard_increment_upper_inclusive(current) ==
    IF current <= 2500 THEN 100
    ELSE IF current <= 10000 THEN 500
    ELSE IF current <= 25000 THEN 1000
    ELSE IF current <= 50000 THEN 2500
    ELSE IF current <= 100000 THEN 5000
    ELSE 10000

standard_increment(current) ==
    IF current < 2500 THEN 100
    ELSE IF current < 10000 THEN 500
    ELSE IF current < 25000 THEN 1000
    ELSE IF current < 50000 THEN 2500
    ELSE IF current < 100000 THEN 5000
    ELSE 10000

\* the override never consulted
get_increment_standard_only(item, base) == standard_increment(base)

get_increment(item, base) ==
    IF item.bid_increment # <<>> THEN item.bid_increment[1] ELSE standard_increment(base)

\* the opening minimum itself refused: one cent more required
OpeningOfPlusCent(item) ==
    IF item.opening_min_bid # <<>> /\ item.opening_min_bid[1] # 0
    THEN item.opening_min_bid[1] + 1 ELSE 101

\* an item without opening minimum opened at 0.00
OpeningOfNoDefault(item) ==
    IF item.opening_min_bid # <<>> THEN item.opening_min_bid[1] ELSE 0

\* Decimal(locked_item.opening_min_bid or Decimal("1.00"))
OpeningOf(item) ==
    IF item.opening_min_bid # <<>> /\ item.opening_min_bid[1] # 0
    THEN item.opening_min_bid[1] ELSE 100

(***************************************************************************)
(* Proxy auction engine: compute_current_state.                            *)
(***************************************************************************)
\* ties broken by the latest updated_at first
KeyBeforeLatestFirst(a, b) ==
    \/ a.amt > b.amt
    \/ a.amt = b.amt /\ a.updated_at > b.updated_at

\* The sort key (-max_amount, updated_at): TRUE when a sorts strictly before b.
KeyBefore(a, b) ==
    \/ a.amt > b.amt
    \/ a.amt = b.amt /\ a.updated_at < b.updated_at

\* ProxyBid.objects.filter(item).order_by("-max_amount", "updated_at")
RECURSIVE OrderedProxies(_, _)
OrderedProxies(tbl, rest) ==
    IF rest = {} THEN <<>>
    ELSE LET row(b) == [amt |-> tbl[b].max_amount, updated_at |-> tbl[b].updated_at, bidder |-> b]
             first == CHOOSE b \in rest : \A c \in rest \ {b} : ~KeyBefore(row(c), row(b))
         IN <<first>> \o OrderedProxies(tbl, rest \ {first})

\* one unit per proxy bid, whatever its seats
RepeatOnce(unit, n) == <<unit>>

\* for _ in range(seats): units.append((amt, p.updated_at, p.bidder_id))
RECURSIVE Repeat(_, _)
Repeat(unit, n) == IF n <= 0 THEN <<>> ELSE <<unit>> \o Repeat(unit, n - 1)

RECURSIVE ExpandUnits(_, _)
ExpandUnits(tbl, order) ==
    IF order = <<>> THEN <<>>
    ELSE LET b == Head(order)
             unit == [amt |-> tbl[b].max_amount, updated_at |-> tbl[b].updated_at, bidder |-> b]
         IN Repeat(unit, Max(1, tbl[b].seats)) \o ExpandUnits(tbl, Tail(order))

\* units.sort(key=...): a stable sort, here by insertion.
RECURSIVE InsertUnit(_, _)
InsertUnit(unit, sorted) ==
    IF sorted = <<>> THEN <<unit>>
    ELSE IF KeyBefore(unit, Head(sorted)) THEN <<unit>> \o sorted
    ELSE <<Head(sorted)>> \o InsertUnit(unit, Tail(sorted))

RECURSIVE SortUnits(_)
SortUnits(units) ==
    IF units = <<>> THEN <<>>
    ELSE InsertUnit(units[Len(units)], SortUnits(SubSeq(units, 1, Len(units) - 1)))

Units(tbl) == SortUnits(ExpandUnits(tbl, OrderedProxies(tbl, DOMAIN tbl)))

\* every unit counted as winning, whatever n
WinnersMapAllUnits(units, n) ==
    [b \in Bidders |-> Cardinality({i \in 1..Len(units) : units[i].bidder = b})]

\* winners_map over the first n units; a bidder absent from the dict has 0 seats.
WinnersMap(units, n) ==
    [b \in Bidders |-> Cardinality({i \in 1..n : units[i].bidder = b})]

compute_current_state(item, tbl) ==
    LET opening == OpeningOf(item)
        K == Max(1, item.quantity_total)
        units == Units(tbl)
    IN  IF units = <<>>
        THEN [leader |-> "None", price |-> opening, full |-> FALSE,
              winners |-> [b \in Bidders |-> 0]]
        ELSE IF Len(units) <= K
        THEN [leader |-> units[1].bidder, price |-> opening, full |-> FALSE,
              winners |-> WinnersMap(units, Len(units))]
        ELSE LET kth_max == units[K].amt
                 next_max == units[K + 1].amt
                 inc == get_increment(item, next_max)
             IN [leader |-> units[1].bidder,
                 price |-> Max(Min(kth_max, next_max + inc), opening),
                 full |-> TRUE,
                 winners |-> WinnersMap(units, K)]

\* Bid rows are append-only and are only ever read through
\* bids.order_by("-amount", "-created_at").first(): the table is kept as that
\* first row, <<>> when it has no row.
TopBid(bs) == bs

BidRow(bidder, amount) == [bidder |-> bidder, amount |-> amount]

\* Bid.objects.create(item, bidder_id, amount): the newest row is first among equal amounts
CreateBid(bs, row) ==
    IF bs = <<>> \/ row.amount >= bs[1].amount THEN <<row>> ELSE bs

(***************************************************************************)
(* Bid intake: place_bid.                                                  *)
(***************************************************************************)
\* the submitted amount always stored
UpsertProxyOverwrite(tbl, u, max_amount, req_seats, t) ==
    [b \in DOMAIN tbl \cup {u} |->
        IF b = u THEN [max_amount |-> max_amount, seats |-> req_seats, updated_at |-> t]
        ELSE tbl[b]]

\* the seats saved only together with a raised maximum
UpsertProxySeatsWithRaise(tbl, u, max_amount, req_seats, t) ==
    IF u \notin DOMAIN tbl
    THEN [b \in DOMAIN tbl \cup {u} |->
            IF b = u THEN [max_amount |-> max_amount, seats |-> req_seats, updated_at |-> t]
            ELSE tbl[b]]
    ELSE LET pb == tbl[u]
             raised == max_amount > pb.max_amount
         IN [tbl EXCEPT ![u] =
                [max_amount |-> IF raised THEN max_amount ELSE pb.max_amount,
                 seats |-> IF raised THEN req_seats ELSE pb.seats,
                 updated_at |-> IF raised THEN t ELSE pb.updated_at]]

\* every submission saved, and stamped, whether or not it changes the row
UpsertProxyRestamped(tbl, u, max_amount, req_seats, t) ==
    IF u \notin DOMAIN tbl
    THEN [b \in DOMAIN tbl \cup {u} |->
            IF b = u THEN [max_amount |-> max_amount, seats |-> req_seats, updated_at |-> t]
            ELSE tbl[b]]
    ELSE LET pb == tbl[u]
             raised == max_amount > pb.max_amount
         IN [tbl EXCEPT ![u] =
                [max_amount |-> IF raised THEN max_amount ELSE pb.max_amount,
                 seats |-> req_seats,
                 updated_at |-> t]]

\* get_or_create + conditional save of the bidder's ProxyBid at time t
UpsertProxy(tbl, u, max_amount, req_seats, t) ==
    IF u \notin DOMAIN tbl
    THEN [b \in DOMAIN tbl \cup {u} |->
            IF b = u THEN [max_amount |-> max_amount, seats |-> req_seats, updated_at |-> t]
            ELSE tbl[b]]
    ELSE LET pb == tbl[u]
             raised == max_amount > pb.max_amount
             changed == raised \/ pb.seats # req_seats
         IN [tbl EXCEPT ![u] =
                [max_amount |-> IF raised THEN max_amount ELSE pb.max_amount,
                 seats |-> req_seats,
                 updated_at |-> IF changed THEN t ELSE pb.updated_at]]

\* timezone.now() of a write to the table: later than every stamp in it
Now(tbl, field) == Cardinality(DOMAIN tbl) + 1

\* the same stamps in the same order, as ranks 1..n
Renumber(tbl, field) ==
    [b \in DOMAIN tbl |->
        [tbl[b] EXCEPT ![field] =
            Cardinality({c \in DOMAIN tbl : tbl[c][field] <= tbl[b][field]})]]

\* should_write_bid and new_leader is not None
ShouldWriteBid(prev_top, prev, next) ==
    /\ \/ prev_top = <<>>
       \/ prev_top[1].amount # next.price
       \/ prev.leader # next.leader
    /\ next.leader # "None"

\* the request just handled, its response, and the Bid row it created (<<>>: none)
Response(op, u, amount, result, wrote) ==
    [op |-> op, user |-> u, amount |-> amount, result |-> result, wrote |-> wrote]

\* the handler with a rejection raised as an exception: the transaction rolls back
place_bid_rollback(u, max_amount, quantity) ==
    \E req_seats \in {Max(1, Min(quantity, K_total))},
       prev_top \in {TopBid(bids)},
       prev \in {compute_current_state(bid_item, proxies)} :
    \E tbl \in {Renumber(UpsertProxy(proxies, u, max_amount, req_seats,
                                     Now(proxies, "updated_at")), "updated_at")} :
    \E next \in {compute_current_state(bid_item, tbl)} :
    LET created == u \notin DOMAIN proxies
        opening_req == OpeningOf(bid_item)
        min_next == prev.price + get_increment(bid_item, prev.price)
        result ==
            IF ~prev.full
            THEN IF max_amount < opening_req THEN "below_opening" ELSE "ok"
            ELSE IF next.winners[u] = 0 /\ max_amount < min_next
                    /\ (~created /\ max_amount <= tbl[u].max_amount)
                 THEN "below_min_next" ELSE "ok"
        write == result = "ok" /\ ShouldWriteBid(prev_top, prev, next)
        row == BidRow(next.leader, next.price)
    IN  /\ proxies' = IF result = "ok" THEN tbl ELSE proxies
        /\ bids' = IF write THEN CreateBid(bids, row) ELSE bids
        /\ last' = Response("place_bid", u, max_amount, result,
                            IF write THEN <<row>> ELSE <<>>)
        /\ UNCHANGED <<bid_item, fp_item, signups>>

\* A value computed once per request is bound with \E x \in {e}.
place_bid(u, max_amount, quantity) ==
    \E req_seats \in {Max(1, Min(quantity, K_total))},
       prev_top \in {TopBid(bids)},
       prev \in {compute_current_state(bid_item, proxies)} :
    \E tbl \in {Renumber(UpsertProxy(proxies, u, max_amount, req_seats,
                                     Now(proxies, "updated_at")), "updated_at")} :
    \E next \in {compute_current_state(bid_item, tbl)} :
    LET created == u \notin DOMAIN proxies
        opening_req == OpeningOf(bid_item)
        min_next == prev.price + get_increment(bid_item, prev.price)
        result ==
            IF ~prev.full
            THEN IF max_amount < opening_req THEN "below_opening" ELSE "ok"
            ELSE IF next.winners[u] = 0 /\ max_amount < min_next
                    /\ (~created /\ max_amount <= tbl[u].max_amount)
                 THEN "below_min_next" ELSE "ok"
        write == result = "ok" /\ ShouldWriteBid(prev_top, prev, next)
        row == BidRow(next.leader, next.price)
    IN  /\ proxies' = tbl
        /\ bids' = IF write THEN CreateBid(bids, row) ELSE bids
        /\ last' = Response("place_bid", u, max_amount, result,
                            IF write THEN <<row>> ELSE <<>>)
        /\ UNCHANGED <<bid_item, fp_item, signups>>

(***************************************************************************)
(* account_update_proxy_max: raise the maximum from the account page.      *)
(* Its compute_current_state returns proxies[0].bidder (a User object, not *)
(* an id) as leader when there are at most K units.                        *)
(***************************************************************************)
\* the Python type of the leader compute_current_state returns there
LeaderKind(state) ==
    IF state.leader = "None" THEN "none" ELSE IF state.full THEN "id" ELSE "object"

account_update_proxy_max(u, new_max) ==
    \E created \in {u \notin DOMAIN proxies},
       prev_top \in {TopBid(bids)},
       prev \in {compute_current_state(bid_item, proxies)} :
    \E seats \in {IF created THEN 1 ELSE proxies[u].seats} :
    \E tbl \in {Renumber(UpsertProxy(proxies, u, new_max, seats,
                                     Now(proxies, "updated_at")), "updated_at")} :
    \E next \in {compute_current_state(bid_item, tbl)} :
    LET opening_req == OpeningOf(bid_item)
        min_next == prev.price + get_increment(bid_item, prev.price)
        should_write_bid ==
            /\ \/ prev_top = <<>>
               \/ prev_top[1].amount # next.price
               \/ LeaderKind(prev) # LeaderKind(next)
               \/ prev.leader # next.leader
            /\ next.leader # "None"
        row == BidRow(next.leader, next.price)
    IN  IF ~prev.full /\ new_max < opening_req
        THEN \* rejected before the upsert
             /\ last' = Response("account_update_proxy_max", u, new_max, "below_opening", <<>>)
             /\ UNCHANGED <<bid_item, proxies, bids, fp_item, signups>>
        ELSE IF prev.full /\ next.winners[u] = 0 /\ new_max < min_next
                /\ (~created /\ new_max <= tbl[u].max_amount)
        THEN \* rejected after the upsert, which stays committed
             /\ proxies' = tbl
             /\ last' = Response("account_update_proxy_max", u, new_max, "below_min_next", <<>>)
             /\ UNCHANGED <<bid_item, bids, fp_item, signups>>
        ELSE IF should_write_bid /\ LeaderKind(next) = "object"
        THEN \* Bid.objects.create(bidder_id=<User>) raises: the transaction rolls back
             /\ last' = Response("account_update_proxy_max", u, new_max, "error", <<>>)
             /\ UNCHANGED <<bid_item, proxies, bids, fp_item, signups>>
        ELSE /\ proxies' = tbl
             /\ bids' = IF should_write_bid THEN CreateBid(bids, row) ELSE bids
             /\ last' = Response("account_update_proxy_max", u, new_max, "ok",
                                 IF should_write_bid THEN <<row>> ELSE <<>>)
             /\ UNCHANGED <<bid_item, fp_item, signups>>

NoResponse == Response("none", "None", 0, "none", <<>>)

\* The accounts whose requests the workers serve concurrently, and the state
\* in which no transaction is open.
Workers == {"X", "Y"}
NoTransactions == [backend |-> "row_lock", tx |-> [w \in Workers |-> <<>>]]

BidInit ==
    /\ bid_item \in [quantity_total : 1..MaxK,
                     opening_min_bid : OpeningChoices,
                     bid_increment : IncrementChoices]
    /\ proxies = <<>>
    /\ bids = <<>>
    /\ fp_item = [quantity_total |-> 1, quantity_sold |-> 0]
    /\ signups = <<>>
    /\ last = NoResponse
    /\ inflight = NoTransactions

BidNext ==
    \/ \E u \in Users, a \in Amounts, q \in 1..MaxK :
          place_bid(u, a, q) /\ UNCHANGED inflight
    \/ \E u \in Users, a \in AccountAmounts :
          account_update_proxy_max(u, a) /\ UNCHANGED inflight

BidSpec == BidInit /\ [][BidNext]_vars

\* The item and the amounts of test_place_first_bid_and_increment_rules:
\* opening minimum 10.00, no override; 9.00, 10.00, 10.50 and 11.00 submitted.
IncrementRuleAmounts == {900, 1000, 1050, 1100}

IncrementRuleInit ==
    /\ bid_item \in [quantity_total : 1..MaxK,
                     opening_min_bid : {<<1000>>},
                     bid_increment : {<<>>}]
    /\ proxies = <<>>
    /\ bids = <<>>
    /\ fp_item = [quantity_total |-> 1, quantity_sold |-> 0]
    /\ signups = <<>>
    /\ last = NoResponse
    /\ inflight = NoTransactions

IncrementRuleNext ==
    \E u \in Users, a \in IncrementRuleAmounts, q \in 1..MaxK :
        place_bid(u, a, q) /\ UNCHANGED inflight

IncrementRuleSpec == IncrementRuleInit /\ [][IncrementRuleNext]_vars

(***************************************************************************)
(* Signup capacity manager: fixed_price_signup, fixed_price_adjust,        *)
(* fixed_price_cancel on the fixed-price item.                             *)
(***************************************************************************)
(***************************************************************************)
(* A third bidder arriving on a single-seat item: the only way a bidder's  *)
(* first submission can meet exhausted capacity, since one bidder's seats  *)
(* never exceed K.                                                         *)
(***************************************************************************)
LateBidderAmounts == {1000, 1100, 2000}

LateBidderInit ==
    /\ bid_item = [quantity_total |-> 1, opening_min_bid |-> <<1000>>, bid_increment |-> <<>>]
    /\ proxies = <<>>
    /\ bids = <<>>
    /\ fp_item = [quantity_total |-> 1, quantity_sold |-> 0]
    /\ signups = <<>>
    /\ last = NoResponse
    /\ inflight = NoTransactions

LateBidderNext ==
    \E u \in Bidders, a \in LateBidderAmounts :
        place_bid(u, a, 1) /\ UNCHANGED inflight

LateBidderSpec == LateBidderInit /\ [][LateBidderNext]_vars

(***************************************************************************)
(* standard_increment applied to a price, as utils.py exposes it.          *)
(***************************************************************************)
\* if current is None: current = Decimal("0")   (a price is <<>> or <<cents>>)
standard_increment_or_zero(current) ==
    standard_increment(IF current = <<>> THEN 0 ELSE current[1])

\* the tier boundaries and the cent on either side of each
TierEdges ==
    UNION {{b - 1, b, b + 1} : b \in {2500, 10000, 25000, 50000, 100000}}

IncrementInputs ==
    {<<>>} \cup {<<c>> : c \in TierEdges \cup {1000 * i : i \in 0..MaxPriceUnits}}

standard_increment_call(current) ==
    /\ last' = Response("standard_increment", "None", current, "returned",
                        <<standard_increment_or_zero(current)>>)
    /\ UNCHANGED <<bid_item, proxies, bids, fp_item, signups>>

IncrementInit ==
    /\ bid_item = [quantity_total |-> 1, opening_min_bid |-> <<>>, bid_increment |-> <<>>]
    /\ proxies = <<>>
    /\ bids = <<>>
    /\ fp_item = [quantity_total |-> 1, quantity_sold |-> 0]
    /\ signups = <<>>
    /\ last = NoResponse
    /\ inflight = NoTransactions

IncrementNext ==
    \E current \in IncrementInputs :
        standard_increment_call(current) /\ UNCHANGED inflight

IncrementSpec == IncrementInit /\ [][IncrementNext]_vars

SignupUsers == {"U1", "U2", "U3"}

\* Signup.objects.filter(item=item, waitlisted=False).aggregate(s=Sum("quantity")).get("s") or 0
RECURSIVE SumQuantity(_, _)
SumQuantity(tbl, S) ==
    IF S = {} THEN 0
    ELSE LET w == CHOOSE w \in S : TRUE IN tbl[w].quantity + SumQuantity(tbl, S \ {w})

ConfirmedSum(tbl) == SumQuantity(tbl, {w \in DOMAIN tbl : ~tbl[w].waitlisted})

\* the capacity taken as free whatever is confirmed
RemainingIgnoringConfirmed(capacity, confirmed) == capacity

\* one seat more than is left
RemainingOffByOne(capacity, confirmed) == Max(0, capacity - confirmed) + 1

\* clamped at one seat instead of none
RemainingAtLeastOne(capacity, confirmed) == Max(1, capacity - confirmed)

\* remaining = max(0, capacity - confirmed_sum)
Remaining(capacity, confirmed) == Max(0, capacity - confirmed)

\* Signup.objects.filter(item=item, waitlisted=True).order_by("created_at")
RECURSIVE WaitlistOrder(_, _)
WaitlistOrder(tbl, rest) ==
    IF rest = {} THEN <<>>
    ELSE LET first == CHOOSE w \in rest : \A v \in rest : tbl[w].created_at <= tbl[v].created_at
         IN <<first>> \o WaitlistOrder(tbl, rest \ {first})

\* the scan stopped at the first waitlisted signup that does not fit
RECURSIVE PromoteLoopBlocking(_, _, _, _)
PromoteLoopBlocking(tbl, sold, remaining, queue) ==
    IF queue = <<>> \/ tbl[Head(queue)].quantity > remaining
    THEN [signups |-> tbl, quantity_sold |-> sold, promoted_any |-> FALSE]
    ELSE LET w == Head(queue)
             rest == PromoteLoopBlocking([tbl EXCEPT ![w].waitlisted = FALSE],
                                         sold + tbl[w].quantity,
                                         remaining - tbl[w].quantity, Tail(queue))
         IN [rest EXCEPT !.promoted_any = TRUE]

\* a waitlisted signup that does not fit promoted for the seats that remain
RECURSIVE PromoteLoopPartial(_, _, _, _)
PromoteLoopPartial(tbl, sold, remaining, queue) ==
    IF queue = <<>> \/ remaining <= 0
    THEN [signups |-> tbl, quantity_sold |-> sold, promoted_any |-> FALSE]
    ELSE LET w == Head(queue)
             q == Min(tbl[w].quantity, remaining)
             rest == PromoteLoopPartial([tbl EXCEPT ![w].waitlisted = FALSE, ![w].quantity = q],
                                        sold + q, remaining - q, Tail(queue))
         IN [rest EXCEPT !.promoted_any = TRUE]

\* promotions that leave item.quantity_sold as it was
RECURSIVE PromoteLoopSoldUntouched(_, _, _, _)
PromoteLoopSoldUntouched(tbl, sold, remaining, queue) ==
    IF queue = <<>>
    THEN [signups |-> tbl, quantity_sold |-> sold, promoted_any |-> FALSE]
    ELSE LET w == Head(queue)
             fits == tbl[w].quantity <= remaining
             tbl1 == IF fits THEN [tbl EXCEPT ![w].waitlisted = FALSE] ELSE tbl
             rem1 == IF fits THEN remaining - tbl[w].quantity ELSE remaining
             rest == IF rem1 <= 0
                     THEN [signups |-> tbl1, quantity_sold |-> sold, promoted_any |-> FALSE]
                     ELSE PromoteLoopSoldUntouched(tbl1, sold, rem1, Tail(queue))
         IN [rest EXCEPT !.promoted_any = fits \/ rest.promoted_any]

\* for w in waitlisted: promote w whole if it fits; stop once nothing remains.
\* (the same loop closes fixed_price_adjust's decrease and fixed_price_cancel)
RECURSIVE PromoteLoop(_, _, _, _)
PromoteLoop(tbl, sold, remaining, queue) ==
    IF queue = <<>>
    THEN [signups |-> tbl, quantity_sold |-> sold, promoted_any |-> FALSE]
    ELSE LET w == Head(queue)
             fits == tbl[w].quantity <= remaining
             tbl1 == IF fits THEN [tbl EXCEPT ![w].waitlisted = FALSE] ELSE tbl
             sold1 == IF fits THEN sold + tbl[w].quantity ELSE sold
             rem1 == IF fits THEN remaining - tbl[w].quantity ELSE remaining
             rest == IF rem1 <= 0
                     THEN [signups |-> tbl1, quantity_sold |-> sold1, promoted_any |-> FALSE]
                     ELSE PromoteLoop(tbl1, sold1, rem1, Tail(queue))
         IN [rest EXCEPT !.promoted_any = fits \/ rest.promoted_any]

\* the closing pass with the recomputation of quantity_sold only
RecomputeOnly(item, tbl) ==
    [signups |-> tbl, quantity_sold |-> Max(0, ConfirmedSum(tbl)), promoted_any |-> FALSE]

\* recompute the confirmed total of tbl, then promote from the waitlist
RecomputeAndPromote(item, tbl) ==
    LET current_confirmed == ConfirmedSum(tbl)
        sold == Max(0, current_confirmed)
        remaining == Remaining(item.quantity_total, sold)
    IN  IF remaining > 0
        THEN PromoteLoop(tbl, sold, remaining,
                         WaitlistOrder(tbl, {w \in DOMAIN tbl : tbl[w].waitlisted}))
        ELSE [signups |-> tbl, quantity_sold |-> sold, promoted_any |-> FALSE]

\* the request handled without looking for the caller's existing signup
fixed_price_signup_unchecked(u, quantity) ==
    LET qty == Max(1, quantity)
        confirmed_sum == ConfirmedSum(signups)
        confirm == Remaining(fp_item.quantity_total, confirmed_sum) >= qty
        row == [quantity |-> qty, waitlisted |-> ~confirm,
                created_at |-> Now(signups, "created_at")]
    IN  /\ signups' = Renumber([w \in DOMAIN signups \cup {u} |->
                                   IF w = u THEN row ELSE signups[w]], "created_at")
        /\ fp_item' = IF confirm
                      THEN [fp_item EXCEPT !.quantity_sold = confirmed_sum + qty]
                      ELSE fp_item
        /\ last' = Response("fixed_price_signup", u, quantity,
                            IF confirm THEN "confirmed" ELSE "waitlisted", <<>>)
        /\ UNCHANGED <<bid_item, proxies, bids>>

fixed_price_signup(u, quantity) ==
    IF u \in DOMAIN signups
    THEN \* existing signup: success, nothing changes
         /\ last' = Response("fixed_price_signup", u, quantity, "exists", <<>>)
         /\ UNCHANGED <<bid_item, proxies, bids, fp_item, signups>>
    ELSE LET qty == Max(1, quantity)
             capacity == fp_item.quantity_total
             confirmed_sum == ConfirmedSum(signups)
             remaining == Remaining(capacity, confirmed_sum)
             confirm == remaining >= qty
             row == [quantity |-> qty, waitlisted |-> ~confirm,
                     created_at |-> Now(signups, "created_at")]
         IN  /\ signups' = Renumber([w \in DOMAIN signups \cup {u} |->
                                        IF w = u THEN row ELSE signups[w]], "created_at")
             /\ fp_item' = IF confirm
                           THEN [fp_item EXCEPT !.quantity_sold = confirmed_sum + qty]
                           ELSE fp_item
             /\ last' = Response("fixed_price_signup", u, quantity,
                                 IF confirm THEN "confirmed" ELSE "waitlisted", <<>>)
             /\ UNCHANGED <<bid_item, proxies, bids>>

\* the handler with the waitlisted path closed by the recompute-and-promote
\* pass of the decrease path
fixed_price_adjust_promoting(u, quantity) ==
    IF u \notin DOMAIN signups
    THEN /\ last' = Response("fixed_price_adjust", u, quantity, "no_signup", <<>>)
         /\ UNCHANGED <<bid_item, proxies, bids, fp_item, signups>>
    ELSE LET signup == signups[u]
             new_qty == Max(1, quantity)
             old_qty == signup.quantity
             capacity == fp_item.quantity_total
             current_confirmed == ConfirmedSum(signups)
             saved == [signups EXCEPT ![u].quantity = new_qty]
             after == RecomputeAndPromote(fp_item, saved)
         IN  IF new_qty = old_qty
             THEN /\ last' = Response("fixed_price_adjust", u, quantity, "no_change", <<>>)
                  /\ UNCHANGED <<bid_item, proxies, bids, fp_item, signups>>
             ELSE IF signup.waitlisted
             THEN /\ signups' = after.signups
                  /\ fp_item' = [fp_item EXCEPT !.quantity_sold = after.quantity_sold]
                  /\ last' = Response("fixed_price_adjust", u, quantity, "waitlist_updated", <<>>)
                  /\ UNCHANGED <<bid_item, proxies, bids>>
             ELSE IF new_qty > old_qty
             THEN IF Remaining(capacity, current_confirmed) < new_qty - old_qty
                  THEN /\ last' = Response("fixed_price_adjust", u, quantity, "rejected", <<>>)
                       /\ UNCHANGED <<bid_item, proxies, bids, fp_item, signups>>
                  ELSE /\ signups' = saved
                       /\ fp_item' = [fp_item EXCEPT
                                         !.quantity_sold = current_confirmed + (new_qty - old_qty)]
                       /\ last' = Response("fixed_price_adjust", u, quantity, "increased", <<>>)
                       /\ UNCHANGED <<bid_item, proxies, bids>>
             ELSE /\ signups' = after.signups
                  /\ fp_item' = [fp_item EXCEPT !.quantity_sold = after.quantity_sold]
                  /\ last' = Response("fixed_price_adjust", u, quantity,
                                      IF after.promoted_any THEN "decreased_promoted"
                                      ELSE "decreased", <<>>)
                  /\ UNCHANGED <<bid_item, proxies, bids>>

fixed_price_adjust(u, quantity) ==
    IF u \notin DOMAIN signups
    THEN /\ last' = Response("fixed_price_adjust", u, quantity, "no_signup", <<>>)
         /\ UNCHANGED <<bid_item, proxies, bids, fp_item, signups>>
    ELSE LET signup == signups[u]
             new_qty == Max(1, quantity)
             old_qty == signup.quantity
             capacity == fp_item.quantity_total
             current_confirmed == ConfirmedSum(signups)
             saved == [signups EXCEPT ![u].quantity = new_qty]
             after == RecomputeAndPromote(fp_item, saved)
         IN  IF new_qty = old_qty
             THEN /\ last' = Response("fixed_price_adjust", u, quantity, "no_change", <<>>)
                  /\ UNCHANGED <<bid_item, proxies, bids, fp_item, signups>>
             ELSE IF signup.waitlisted
             THEN /\ signups' = saved
                  /\ last' = Response("fixed_price_adjust", u, quantity, "waitlist_updated", <<>>)
                  /\ UNCHANGED <<bid_item, proxies, bids, fp_item>>
             ELSE IF new_qty > old_qty
             THEN IF Remaining(capacity, current_confirmed) < new_qty - old_qty
                  THEN /\ last' = Response("fixed_price_adjust", u, quantity, "rejected", <<>>)
                       /\ UNCHANGED <<bid_item, proxies, bids, fp_item, signups>>
                  ELSE /\ signups' = saved
                       /\ fp_item' = [fp_item EXCEPT
                                         !.quantity_sold = current_confirmed + (new_qty - old_qty)]
                       /\ last' = Response("fixed_price_adjust", u, quantity, "increased", <<>>)
                       /\ UNCHANGED <<bid_item, proxies, bids>>
             ELSE /\ signups' = after.signups
                  /\ fp_item' = [fp_item EXCEPT !.quantity_sold = after.quantity_sold]
                  /\ last' = Response("fixed_price_adjust", u, quantity,
                                      IF after.promoted_any THEN "decreased_promoted"
                                      ELSE "decreased", <<>>)
                  /\ UNCHANGED <<bid_item, proxies, bids>>

\* the handler with the recompute-and-promote pass run after every deletion
fixed_price_cancel_promoting(u) ==
    IF u \notin DOMAIN signups
    THEN /\ last' = Response("fixed_price_cancel", u, 0, "no_signup", <<>>)
         /\ UNCHANGED <<bid_item, proxies, bids, fp_item, signups>>
    ELSE LET deleted == [w \in DOMAIN signups \ {u} |-> signups[w]]
             after == RecomputeAndPromote(fp_item, deleted)
         IN  /\ signups' = Renumber(after.signups, "created_at")
             /\ fp_item' = [fp_item EXCEPT !.quantity_sold = after.quantity_sold]
             /\ last' = Response("fixed_price_cancel", u, 0,
                                 IF after.promoted_any THEN "canceled_promoted"
                                 ELSE "canceled", <<>>)
             /\ UNCHANGED <<bid_item, proxies, bids>>

fixed_price_cancel(u) ==
    IF u \notin DOMAIN signups
    THEN /\ last' = Response("fixed_price_cancel", u, 0, "no_signup", <<>>)
         /\ UNCHANGED <<bid_item, proxies, bids, fp_item, signups>>
    ELSE LET was_waitlisted == signups[u].waitlisted
             deleted == [w \in DOMAIN signups \ {u} |-> signups[w]]
             after == RecomputeAndPromote(fp_item, deleted)
         IN  IF was_waitlisted
             THEN /\ signups' = Renumber(deleted, "created_at")
                  /\ last' = Response("fixed_price_cancel", u, 0, "canceled", <<>>)
                  /\ UNCHANGED <<bid_item, proxies, bids, fp_item>>
             ELSE /\ signups' = Renumber(after.signups, "created_at")
                  /\ fp_item' = [fp_item EXCEPT !.quantity_sold = after.quantity_sold]
                  /\ last' = Response("fixed_price_cancel", u, 0,
                                      IF after.promoted_any THEN "canceled_promoted"
                                      ELSE "canceled", <<>>)
                  /\ UNCHANGED <<bid_item, proxies, bids>>

SignupInit ==
    /\ fp_item \in [quantity_total : 1..MaxCapacity, quantity_sold : {0}]
    /\ signups = <<>>
    /\ bid_item = [quantity_total |-> 1, opening_min_bid |-> <<>>, bid_increment |-> <<>>]
    /\ proxies = <<>>
    /\ bids = <<>>
    /\ last = NoResponse
    /\ inflight = NoTransactions

SignupNext ==
    \/ \E u \in SignupUsers, q \in 0..MaxQty :
          fixed_price_signup(u, q) /\ UNCHANGED inflight
    \/ \E u \in SignupUsers, q \in 0..MaxQty :
          fixed_price_adjust(u, q) /\ UNCHANGED inflight
    \/ \E u \in SignupUsers :
          fixed_price_cancel(u) /\ UNCHANGED inflight

SignupSpec == SignupInit /\ [][SignupNext]_vars

(***************************************************************************)
(* The views as the router calls them: the checks on the item and on the   *)
(* posted fields that precede the handlers above, and publication.  Here   *)
(* an Item row also carries its status and type.                           *)
(***************************************************************************)
\* posted "amount" and "quantity" fields, after (... or "").strip()
RawAmounts == {"", "abc", "5.00", "10.00", "20.00"}
RawQuantities == {"", "abc", "1", "2"}

\* Decimal(raw_amount): the value in cents, <<>> when Decimal raises
DecimalOf(raw) ==
    CASE raw = "5.00" -> <<500>>
      [] raw = "10.00" -> <<1000>>
      [] raw = "20.00" -> <<2000>>
      [] OTHER -> <<>>

\* int(raw): <<>> when int raises
IntOf(raw) ==
    CASE raw = "1" -> <<1>>
      [] raw = "2" -> <<2>>
      [] OTHER -> <<>>

\* try: int((quantity or "1").strip() or "1")  except: 1
ReqSeats(raw_quantity) ==
    LET text == IF raw_quantity = "" THEN "1" ELSE raw_quantity
    IN  IF IntOf(text) = <<>> THEN 1 ELSE IntOf(text)[1]

\* the item check made only on the status
BiddingAllowedAnyType(item) == item.status = "published"

\* not (item.status != published or item.type == fixed)
BiddingAllowed(item) == ~(item.status # "published" \/ item.type = "fixed")

\* not (item.type != fixed or item.status != published)
SignupAllowed(item) == ~(item.type # "fixed" \/ item.status # "published")

\* (a request refused before its amount is parsed is recorded with amount 0)
place_bid_request(u, raw_amount, raw_quantity) ==
    IF ~BiddingAllowed(bid_item)
    THEN /\ last' = Response("place_bid", u, 0, "not_allowed", <<>>)
         /\ UNCHANGED <<bid_item, proxies, bids, fp_item, signups>>
    ELSE IF DecimalOf(raw_amount) = <<>>
    THEN /\ last' = Response("place_bid", u, 0, "invalid_amount", <<>>)
         /\ UNCHANGED <<bid_item, proxies, bids, fp_item, signups>>
    ELSE place_bid(u, DecimalOf(raw_amount)[1], ReqSeats(raw_quantity))

fixed_price_signup_request(u, quantity) ==
    IF ~SignupAllowed(fp_item)
    THEN /\ last' = Response("fixed_price_signup", u, quantity, "not_allowed", <<>>)
         /\ UNCHANGED <<bid_item, proxies, bids, fp_item, signups>>
    ELSE fixed_price_signup(u, quantity)

\* accounts that call manager_publish_item
Accounts ==
    [anonymous |-> [is_authenticated |-> FALSE, is_staff |-> FALSE,
                    is_superuser |-> FALSE, groups |-> {}],
     member    |-> [is_authenticated |-> TRUE, is_staff |-> FALSE,
                    is_superuser |-> FALSE, groups |-> {}],
     donor     |-> [is_authenticated |-> TRUE, is_staff |-> FALSE,
                    is_superuser |-> FALSE, groups |-> {"Donor"}],
     manager   |-> [is_authenticated |-> TRUE, is_staff |-> FALSE,
                    is_superuser |-> FALSE, groups |-> {"Manager"}],
     staff     |-> [is_authenticated |-> TRUE, is_staff |-> TRUE,
                    is_superuser |-> FALSE, groups |-> {}],
     root      |-> [is_authenticated |-> TRUE, is_staff |-> FALSE,
                    is_superuser |-> TRUE, groups |-> {}]]

\* membership of any group taken for the Manager role
is_manager_any_group(user) ==
    IF ~user.is_authenticated THEN FALSE
    ELSE IF user.is_staff \/ user.is_superuser THEN TRUE
    ELSE user.groups # {}

is_manager(user) ==
    IF ~user.is_authenticated THEN FALSE
    ELSE IF user.is_staff \/ user.is_superuser THEN TRUE
    ELSE "Manager" \in user.groups

\* the slugs of the two items, numbered: 1 the bidding item, 2 the fixed-price item
Slugs == {1, 2}

\* the Item row a slug names
ItemOf(slug) == IF slug = 1 THEN bid_item ELSE fp_item

\* @manager_required manager_publish_item
manager_publish_item(caller, slug) ==
    IF ~is_manager(Accounts[caller])
    THEN /\ last' = Response("manager_publish_item", caller, slug, "managers_only", <<>>)
         /\ UNCHANGED <<bid_item, proxies, bids, fp_item, signups>>
    ELSE IF ItemOf(slug).status # "draft"
    THEN /\ last' = Response("manager_publish_item", caller, slug, "not_draft", <<>>)
         /\ UNCHANGED <<bid_item, proxies, bids, fp_item, signups>>
    ELSE /\ bid_item' = IF slug = 1 THEN [bid_item EXCEPT !.status = "published"]
                        ELSE bid_item
         /\ fp_item' = IF slug = 2 THEN [fp_item EXCEPT !.status = "published"]
                       ELSE fp_item
         /\ last' = Response("manager_publish_item", caller, slug, "published", <<>>)
         /\ UNCHANGED <<proxies, bids, signups>>

GateBidders == {"X", "Y"}
GateSignupUsers == {"U1", "U2"}

GateInit ==
    /\ bid_item \in [quantity_total : {1}, opening_min_bid : {<<1000>>},
                     bid_increment : {<<>>},
                     status : {"draft", "sold"}, type : {"good", "fixed"}]
    /\ fp_item \in [quantity_total : {2}, quantity_sold : {0},
                    status : {"draft", "archived"}, type : {"fixed", "event"}]
    /\ proxies = <<>>
    /\ bids = <<>>
    /\ signups = <<>>
    /\ last = NoResponse
    /\ inflight = NoTransactions

GateNext ==
    \/ \E u \in GateBidders, a \in RawAmounts, q \in RawQuantities :
          place_bid_request(u, a, q) /\ UNCHANGED inflight
    \/ \E u \in GateSignupUsers, q \in 1..2 :
          fixed_price_signup_request(u, q) /\ UNCHANGED inflight
    \/ \E c \in DOMAIN Accounts, slug \in Slugs :
          manager_publish_item(c, slug) /\ UNCHANGED inflight

GateSpec == GateInit /\ [][GateNext]_vars

(***************************************************************************)
(* Bids posted with a quantity field that is not a number, on a published  *)
(* single-seat bidding item.                                               *)
(***************************************************************************)
MalformedSeatsInit ==
    /\ bid_item = [quantity_total |-> 1, opening_min_bid |-> <<1000>>,
                   bid_increment |-> <<>>, status |-> "published", type |-> "good"]
    /\ fp_item = [quantity_total |-> 2, quantity_sold |-> 0,
                  status |-> "published", type |-> "fixed"]
    /\ proxies = <<>>
    /\ bids = <<>>
    /\ signups = <<>>
    /\ last = NoResponse
    /\ inflight = NoTransactions

MalformedSeatsNext ==
    \E u \in GateBidders, a \in RawAmounts :
        place_bid_request(u, a, "abc") /\ UNCHANGED inflight

MalformedSeatsSpec == MalformedSeatsInit /\ [][MalformedSeatsNext]_vars

(***************************************************************************)
(* Bids posted with and without a quantity field on published bidding      *)
(* items of one and of two seats.                                          *)
(***************************************************************************)
QuantityAmounts == {"10.00", "20.00"}
PostedQuantities == {"", "1", "2"}

QuantityInit ==
    /\ bid_item \in [quantity_total : {1, 2}, opening_min_bid : {<<1000>>},
                     bid_increment : {<<>>}, status : {"published"}, type : {"good"}]
    /\ fp_item = [quantity_total |-> 2, quantity_sold |-> 0,
                  status |-> "published", type |-> "fixed"]
    /\ proxies = <<>>
    /\ bids = <<>>
    /\ signups = <<>>
    /\ last = NoResponse
    /\ inflight = NoTransactions

QuantityNext ==
    \E u \in GateBidders, a \in QuantityAmounts, q \in PostedQuantities :
        place_bid_request(u, a, q) /\ UNCHANGED inflight

QuantitySpec == QuantityInit /\ [][QuantityNext]_vars

(***************************************************************************)
(* Concurrent requests.  Every worker serves one request at a time; a      *)
(* request opens a transaction, takes the item row with select_for_update  *)
(* as its first statement, reads, computes and writes, and the end of the  *)
(* atomic block commits.  On a backend with row locks the select blocks    *)
(* while another transaction holds the row.  The default backend is        *)
(* SQLite, which ignores select_for_update: there the transactions read    *)
(* side by side, the database lets a writer commit only when no other      *)
(* transaction is open, and a request that meets the lock fails with       *)
(* "database is locked", which the handler turns into an error message     *)
(* after the rollback.  A transaction records the rows it read when it     *)
(* began; the commit step is the handler applied to the rows as they are   *)
(* at the commit.                                                          *)
(***************************************************************************)
Backends == {"row_lock", "file_lock"}
ConcurrentAmounts == {1000, 2000}
ConcurrentQuantities == {1, 2}

\* amount is the bid of a place_bid, the quantity of a signup or of an
\* adjustment, and 0 for a cancellation.
ConcurrentRequests ==
    [op : {"place_bid"}, slug : {1}, amount : ConcurrentAmounts]
      \cup [op : {"fixed_price_signup", "fixed_price_adjust"}, slug : {2},
            amount : ConcurrentQuantities]
      \cup [op : {"fixed_price_cancel"}, slug : {2}, amount : {0}]

RowsRead(slug) ==
    IF slug = 1 THEN [item |-> bid_item, rows |-> proxies, audit |-> bids]
                ELSE [item |-> fp_item, rows |-> signups, audit |-> <<>>]

InTransaction(w) == inflight.tx[w] # <<>>

OthersOn(w, slug) ==
    {o \in Workers \ {w} : InTransaction(o) /\ inflight.tx[o][1].request.slug = slug}

OthersOpen(w) == {o \in Workers \ {w} : InTransaction(o)}

\* A select_for_update that never waits.
select_for_update_ignored(w, slug) == TRUE

\* Item.objects.select_for_update().get(slug=slug) returns to worker w.
select_for_update(w, slug) ==
    inflight.backend = "row_lock" => OthersOn(w, slug) = {}

Handler(w, request) ==
    IF request.op = "place_bid" THEN place_bid(w, request.amount, 1)
    ELSE IF request.op = "fixed_price_signup" THEN fixed_price_signup(w, request.amount)
    ELSE IF request.op = "fixed_price_adjust" THEN fixed_price_adjust(w, request.amount)
    ELSE fixed_price_cancel(w)

Begin(w, request) ==
    /\ ~InTransaction(w)
    /\ select_for_update(w, request.slug)
    /\ inflight' = [inflight EXCEPT
                       !.tx[w] = <<[request |-> request, seen |-> RowsRead(request.slug),
                                    written |-> FALSE]>>]
    /\ UNCHANGED <<bid_item, proxies, bids, fp_item, signups, last>>

Commit(w) ==
    /\ InTransaction(w)
    /\ Handler(w, inflight.tx[w][1].request)
    /\ \/ inflight.backend = "row_lock"
       \/ OthersOpen(w) = {}
       \/ UNCHANGED <<bid_item, proxies, bids, fp_item, signups>>
    /\ inflight' = [inflight EXCEPT !.tx[w] = <<>>]

DatabaseIsLocked(w) ==
    /\ InTransaction(w)
    /\ inflight.backend = "file_lock"
    /\ OthersOpen(w) # {}
    /\ last' = Response(inflight.tx[w][1].request.op, w,
                        inflight.tx[w][1].request.amount, "error", <<>>)
    /\ inflight' = [inflight EXCEPT !.tx[w] = <<>>]
    /\ UNCHANGED <<bid_item, proxies, bids, fp_item, signups>>

ConcurrentInit ==
    /\ bid_item = [quantity_total |-> 1, opening_min_bid |-> <<1000>>, bid_increment |-> <<>>]
    /\ proxies = <<>>
    /\ bids = <<>>
    /\ fp_item = [quantity_total |-> 2, quantity_sold |-> 0]
    /\ signups = <<>>
    /\ last = NoResponse
    /\ inflight \in [backend : Backends, tx : {[w \in Workers |-> <<>>]}]

ConcurrentNext ==
    \/ \E w \in Workers, request \in ConcurrentRequests : Begin(w, request)
    \/ \E w \in Workers : Commit(w)
    \/ \E w \in Workers : DatabaseIsLocked(w)

ConcurrentSpec == ConcurrentInit /\ [][ConcurrentNext]_vars

(***************************************************************************)
(* Storage failures.  Every handler body is                                *)
(*     try: with transaction.atomic(): ...  except Exception: error        *)
(* so an exception raised by any statement of the block rolls back the     *)
(* writes the block has made and the caller gets the handler's error       *)
(* message.  A failing run is modelled in up to three steps: the           *)
(* transaction begins, its first write reaches the tables, and the         *)
(* exception ends it.  The rows recorded at the beginning are the          *)
(* savepoint of the atomic block.                                          *)
(***************************************************************************)
\* the transaction of w has written
HasWritten(w) == InTransaction(w) /\ inflight.tx[w][1].written

\* rows of the item that no open transaction has written
Clean(w, slug) == \A o \in OthersOn(w, slug) : ~HasWritten(o)

\* the first row write of the handler has been executed, the rest has not:
\* place_bid 197-210, fixed_price_signup Signup.objects.create,
\* fixed_price_adjust signup.save, fixed_price_cancel signup.delete
FirstWrite(w) ==
    /\ InTransaction(w)
    /\ ~HasWritten(w)
    /\ inflight.backend = "file_lock" => \A o \in OthersOpen(w) : ~HasWritten(o)
    /\ LET request == inflight.tx[w][1].request
       IN  IF request.op = "place_bid"
           THEN /\ proxies' = Renumber(UpsertProxy(proxies, w, request.amount, 1,
                                                   Now(proxies, "updated_at")), "updated_at")
                /\ UNCHANGED signups
           ELSE IF request.op = "fixed_price_signup"
           THEN /\ w \notin DOMAIN signups
                /\ signups' =
                      Renumber([u \in DOMAIN signups \cup {w} |->
                                  IF u = w
                                  THEN [quantity |-> Max(1, request.amount),
                                        waitlisted |->
                                           Remaining(fp_item.quantity_total,
                                                     ConfirmedSum(signups))
                                              < Max(1, request.amount),
                                        created_at |-> Now(signups, "created_at")]
                                  ELSE signups[u]], "created_at")
                /\ UNCHANGED proxies
           ELSE IF request.op = "fixed_price_adjust"
           THEN /\ w \in DOMAIN signups
                /\ signups' = [signups EXCEPT ![w].quantity = Max(1, request.amount)]
                /\ UNCHANGED proxies
           ELSE /\ w \in DOMAIN signups
                /\ signups' = Renumber([u \in DOMAIN signups \ {w} |-> signups[u]],
                                       "created_at")
                /\ UNCHANGED proxies
    /\ inflight' = [inflight EXCEPT !.tx[w][1].written = TRUE]
    /\ UNCHANGED <<bid_item, bids, fp_item, last>>

\* the handler without transaction.atomic(): the exception reaches the
\* except clause and the rows written before it stay
StorageFailureKeepingWrites(w) ==
    /\ InTransaction(w)
    /\ last' = Response(inflight.tx[w][1].request.op, w,
                        inflight.tx[w][1].request.amount, "error", <<>>)
    /\ inflight' = [inflight EXCEPT !.tx[w] = <<>>]
    /\ UNCHANGED <<bid_item, proxies, bids, fp_item, signups>>

\* an exception inside the atomic block: rollback to the rows as they were
\* when the block was entered, then the except clause
StorageFailure(w) ==
    /\ InTransaction(w)
    /\ LET seen == inflight.tx[w][1].seen
       IN  IF inflight.tx[w][1].request.slug = 1
           THEN /\ bid_item' = seen.item /\ proxies' = seen.rows /\ bids' = seen.audit
                /\ UNCHANGED <<fp_item, signups>>
           ELSE /\ fp_item' = seen.item /\ signups' = seen.rows
                /\ UNCHANGED <<bid_item, proxies, bids>>
    /\ last' = Response(inflight.tx[w][1].request.op, w,
                        inflight.tx[w][1].request.amount, "error", <<>>)
    /\ inflight' = [inflight EXCEPT !.tx[w] = <<>>]

\* one request of each kind
FailureRequests ==
    {request \in ConcurrentRequests :
        \/ request.op = "place_bid" /\ request.amount = 2000
        \/ request.op = "fixed_price_cancel"
        \/ request.op = "fixed_price_signup" /\ request.amount = 2
        \/ request.op = "fixed_price_adjust" /\ request.amount = 1}

FailureInit == ConcurrentInit

FailureNext ==
    \/ \E w \in Workers, request \in FailureRequests :
          Begin(w, request) /\ Clean(w, request.slug)
    \/ \E w \in Workers : FirstWrite(w)
    \/ \E w \in Workers : Commit(w) /\ ~HasWritten(w)
    \/ \E w \in Workers : StorageFailure(w)

FailureSpec == FailureInit /\ [][FailureNext]_vars

(***************************************************************************)
(* Lock order.  A request is started when its worker picks it up; its      *)
(* first lock is the item row (select_for_update on Item), and only a      *)
(* transaction holding it goes on to lock rows that belong to the item:    *)
(* the item's ProxyBid rows in compute_current_state and get_or_create,    *)
(* the waitlisted Signup rows in the promotion pass.  The end of the       *)
(* atomic block releases every lock.  On the file_lock backend the selects *)
(* do not lock and return at once.                                         *)
(***************************************************************************)
LockRequests ==
    {request \in ConcurrentRequests :
        \/ request.op = "place_bid" /\ request.amount = 2000
        \/ request.op = "fixed_price_signup" /\ request.amount = 2
        \/ request.op = "fixed_price_adjust" /\ request.amount = 1
        \/ request.op = "fixed_price_cancel"}

\* the handler locks rows of the item after the item itself
LocksRows(request) == request.op \in {"place_bid", "fixed_price_adjust", "fixed_price_cancel"}

ItemHeldByOther(w, slug) ==
    \E o \in Workers \ {w} :
        InTransaction(o) /\ inflight.tx[o][1].request.slug = slug
                         /\ inflight.tx[o][1].item_locked

RowsHeldByOther(w, slug) ==
    \E o \in Workers \ {w} :
        InTransaction(o) /\ inflight.tx[o][1].request.slug = slug
                         /\ inflight.tx[o][1].rows_locked

\* no row has been read before the first select of the transaction
NothingRead == [item |-> <<>>, rows |-> <<>>, audit |-> <<>>]

\* a worker picks the request up and opens its transaction
Start(w, request) ==
    /\ ~InTransaction(w)
    /\ inflight' = [inflight EXCEPT
                       !.tx[w] = <<[request |-> request, seen |-> NothingRead,
                                    written |-> FALSE,
                                    item_locked |-> FALSE, rows_locked |-> FALSE]>>]
    /\ UNCHANGED <<bid_item, proxies, bids, fp_item, signups, last>>

\* a cancel that locks the waitlisted Signup rows before it locks the item
TakeNextLockRowsFirst(w) ==
    /\ InTransaction(w)
    /\ LET t == inflight.tx[w][1]
           slug == t.request.slug
           rows_first == t.request.op = "fixed_price_cancel"
       IN  IF (rows_first /\ t.rows_locked /\ ~t.item_locked) \/ (~rows_first /\ ~t.item_locked)
           THEN /\ inflight.backend = "row_lock" => ~ItemHeldByOther(w, slug)
                /\ inflight' = [inflight EXCEPT !.tx[w][1].item_locked = TRUE,
                                                !.tx[w][1].seen = RowsRead(slug)]
           ELSE /\ LocksRows(t.request) /\ ~t.rows_locked
                /\ inflight.backend = "row_lock" => ~RowsHeldByOther(w, slug)
                /\ inflight' = [inflight EXCEPT !.tx[w][1].rows_locked = TRUE]
    /\ UNCHANGED <<bid_item, proxies, bids, fp_item, signups, last>>

\* the next select_for_update of the handler returns: the item first, then
\* the rows of the item
TakeNextLock(w) ==
    /\ InTransaction(w)
    /\ LET t == inflight.tx[w][1]
           slug == t.request.slug
       IN  IF ~t.item_locked
           THEN /\ inflight.backend = "row_lock" => ~ItemHeldByOther(w, slug)
                /\ inflight' = [inflight EXCEPT !.tx[w][1].item_locked = TRUE,
                                                !.tx[w][1].seen = RowsRead(slug)]
           ELSE /\ LocksRows(t.request) /\ ~t.rows_locked
                /\ inflight.backend = "row_lock" => ~RowsHeldByOther(w, slug)
                /\ inflight' = [inflight EXCEPT !.tx[w][1].rows_locked = TRUE]
    /\ UNCHANGED <<bid_item, proxies, bids, fp_item, signups, last>>

\* the handler has every lock it takes
Ready(w) ==
    /\ InTransaction(w)
    /\ inflight.tx[w][1].item_locked
    /\ LocksRows(inflight.tx[w][1].request) => inflight.tx[w][1].rows_locked

\* the rest of the atomic block runs; its end commits and releases the locks
Finish(w) ==
    /\ Ready(w)
    /\ Commit(w)

\* the view returns to its worker: a Finish or DatabaseIsLocked step of a
\* handler that has its locks, whatever it wrote
Returns(w) ==
    /\ Ready(w)
    /\ inflight' = [inflight EXCEPT !.tx[w] = <<>>]

LockInit == ConcurrentInit

LockNext ==
    \/ \E w \in Workers, request \in LockRequests : Start(w, request)
    \/ \E w \in Workers : TakeNextLock(w)
    \/ \E w \in Workers : Finish(w)
    \/ \E w \in Workers : DatabaseIsLocked(w)

\* Fair lock scheduling: a worker whose lock is free again and again gets
\* it (strong fairness of TakeNextLock), and a worker that has its locks runs
\* to the end of its view (weak fairness of Returns; every handler returns a
\* response from every state, so Returns is enabled exactly when Ready holds,
\* and the condition is written with Ready for ENABLED).
LockSpec ==
    /\ LockInit /\ [][LockNext]_vars
    /\ \A w \in Workers :
          /\ SF_vars(TakeNextLock(w))
          /\ []<>(~Ready(w)) \/ []<><<Returns(w)>>_vars

(***************************************************************************)
(* The end of the live phase against bids in flight.  place_bid fetches    *)
(* the item and checks its status before it opens its transaction; the     *)
(* row it locks afterwards is fetched again by primary key and its status  *)
(* is not looked at.  The end_live_phase command marks published bidding   *)
(* items that have a top bid as sold.                                      *)
(***************************************************************************)
LivePhaseAmounts == {1000, 2000}

\* place_bid up to the parsing of the amount: the unlocked read and the check
place_bid_check(w, max_amount) ==
    /\ ~InTransaction(w)
    /\ IF ~BiddingAllowed(bid_item)
       THEN /\ last' = Response("place_bid", w, 0, "not_allowed", <<>>)
            /\ UNCHANGED <<bid_item, proxies, bids, fp_item, signups, inflight>>
       ELSE /\ inflight' = [inflight EXCEPT
                               !.tx[w] = <<[request |-> [op |-> "place_bid", slug |-> 1,
                                                         amount |-> max_amount],
                                            seen |-> RowsRead(1), written |-> FALSE]>>]
            /\ UNCHANGED <<bid_item, proxies, bids, fp_item, signups, last>>

\* the transaction of a place_bid that passed the check
place_bid_transaction(w) ==
    /\ InTransaction(w)
    /\ place_bid(w, inflight.tx[w][1].request.amount, 1)
    /\ inflight' = [inflight EXCEPT !.tx[w] = <<>>]

\* Command.handle without --dry-run: the item is marked sold when it is a
\* published bidding item with a top bid
end_live_phase ==
    LET to_mark_sold == bid_item.status = "published" /\ bid_item.type # "fixed"
                          /\ TopBid(bids) # <<>>
    IN  /\ bid_item' = IF to_mark_sold THEN [bid_item EXCEPT !.status = "sold"]
                       ELSE bid_item
        /\ last' = Response("end_live_phase", "None", IF to_mark_sold THEN 1 ELSE 0,
                            "applied", <<>>)
        /\ UNCHANGED <<proxies, bids, fp_item, signups, inflight>>

LivePhaseInit ==
    /\ bid_item \in [quantity_total : {1, 2}, opening_min_bid : {<<1000>>},
                     bid_increment : {<<>>}, status : {"published"}, type : {"good"}]
    /\ fp_item = [quantity_total |-> 2, quantity_sold |-> 0,
                  status |-> "published", type |-> "fixed"]
    /\ proxies = <<>>
    /\ bids = <<>>
    /\ signups = <<>>
    /\ last = NoResponse
    /\ inflight = NoTransactions

LivePhaseNext ==
    \/ \E w \in Workers, a \in LivePhaseAmounts : place_bid_check(w, a)
    \/ \E w \in Workers : place_bid_transaction(w)
    \/ end_live_phase

LivePhaseSpec == LivePhaseInit /\ [][LivePhaseNext]_vars

(***************************************************************************)
(* Properties of the bidding item.                                         *)
(***************************************************************************)
Engine == compute_current_state(bid_item, proxies)

RECURSIVE SumOver(_, _)
SumOver(f, S) ==
    IF S = {} THEN 0
    ELSE LET x == CHOOSE x \in S : TRUE IN f[x] + SumOver(f, S \ {x})

\* C1: the winners map allocates at most K seats in total, in every reachable
\* state (any K, any sequence of submissions).
C1_WinnersWithinK == SumOver(Engine.winners, Users) <= K_total

\* More units than seats are declared, by two bidders, and all K = 2 seats are won.
C1_Witness ==
    /\ K_total = 2
    /\ Len(Units(proxies)) > K_total
    /\ Cardinality(DOMAIN proxies) = 2
    /\ SumOver(Engine.winners, Users) = 2

\* C4: a stored max_amount never decreases; a submission of amount a by a
\* bidder with a standing maximum leaves it unchanged when a is lower or equal
\* and only a strictly greater a replaces it; no other maximum is touched.
C4_MaxAmountMonotone ==
    [][\A b \in DOMAIN proxies :
          /\ b \in DOMAIN proxies'
          /\ proxies'[b].max_amount >= proxies[b].max_amount
          /\ proxies'[b].max_amount # proxies[b].max_amount
                => /\ last'.user = b
                   /\ last'.amount > proxies[b].max_amount
                   /\ proxies'[b].max_amount = last'.amount
          /\ (last'.op = "place_bid" /\ last'.user = b)
                => proxies'[b].max_amount = Max(last'.amount, proxies[b].max_amount)
      ]_vars

\* A bidder has just submitted, through place_bid, an amount below the standing
\* maximum, which stands.
C4_Witness ==
    /\ last.op = "place_bid"
    /\ last.user \in DOMAIN proxies
    /\ last.amount < proxies[last.user].max_amount

\* C5: the public price is at least the opening minimum and at most the K-th
\* highest declared unit maximum (when there are K units).
C5_PriceWithinBounds ==
    /\ Engine.price >= OpeningOf(bid_item)
    /\ Len(Units(proxies)) >= K_total => Engine.price <= Units(proxies)[K_total].amt

\* C6: re-submitting the bidder's standing max and seats changes neither the
\* leader nor the public price and appends no audit row.
C6_Idempotent ==
    [][\A u \in DOMAIN proxies :
          (/\ last'.op = "place_bid" /\ last'.user = u
           /\ last'.amount = proxies[u].max_amount
           /\ proxies'[u].seats = proxies[u].seats) =>
              /\ last'.wrote = <<>>
              /\ compute_current_state(bid_item', proxies').leader = Engine.leader
              /\ compute_current_state(bid_item', proxies').price = Engine.price
      ]_vars

\* C9: among units of equal max_amount, those of the proxy bid with the earlier
\* updated_at rank first; with K = 1 and opening 10.00, X at 10.00 before Y at
\* 10.00 leaves X leader at 10.00, capacity exhausted and Y without a seat.
UnitPositions(b) == {i \in 1..Len(Units(proxies)) : Units(proxies)[i].bidder = b}

C9_TieBreakEarlierFirst ==
    /\ \A a, b \in DOMAIN proxies :
          (proxies[a].max_amount = proxies[b].max_amount
             /\ proxies[a].updated_at < proxies[b].updated_at)
          => \A i \in UnitPositions(a), j \in UnitPositions(b) : i < j
    /\ (/\ K_total = 1
        /\ OpeningOf(bid_item) = 1000
        /\ DOMAIN proxies = {"X", "Y"}
        /\ proxies["X"].max_amount = 1000
        /\ proxies["Y"].max_amount = 1000
        /\ proxies["X"].updated_at < proxies["Y"].updated_at)
       => /\ Engine.leader = "X"
          /\ Engine.price = 1000
          /\ Engine.full
          /\ Engine.winners["Y"] = 0
          /\ Engine.winners["X"] = 1

\* Y has just placed 10.00 after X's 10.00 on the one-seat item opening at 10.00.
C9_Witness ==
    /\ K_total = 1
    /\ OpeningOf(bid_item) = 1000
    /\ DOMAIN proxies = {"X", "Y"}
    /\ proxies["X"].max_amount = 1000
    /\ proxies["Y"].max_amount = 1000
    /\ proxies["X"].updated_at < proxies["Y"].updated_at
    /\ last.op = "place_bid" /\ last.user = "Y" /\ last.result = "ok"

ScenarioB ==
    /\ K_total = 1
    /\ OpeningOf(bid_item) = 100
    /\ bid_item.bid_increment = <<>>
    /\ DOMAIN proxies = {"X", "Y"}
    /\ proxies["X"].max_amount = 2000
    /\ proxies["Y"].max_amount = 1500

\* C10 as stated: in scenario B (K = 1, opening 1.00, no override, X at 20.00,
\* Y at 15.00) capacity is exhausted, X leads and the public price is 20.00.
C10_ScenarioB_Price20 ==
    ScenarioB => (Engine.full /\ Engine.leader = "X" /\ Engine.price = 2000)

\* C10 amended: in scenario B capacity is exhausted, X leads and the public
\* price is 16.00 = min(20.00, 15.00 + standard_increment(15.00) = 1.00).
C10_ScenarioB_Price16 ==
    ScenarioB => (Engine.full /\ Engine.leader = "X" /\ Engine.price = 1600)

\* Y has just placed 15.00 after X's 20.00.
C10_Witness ==
    /\ ScenarioB
    /\ proxies["X"].updated_at < proxies["Y"].updated_at
    /\ last.op = "place_bid" /\ last.user = "Y" /\ last.result = "ok"

(***************************************************************************)
(* Properties of the fixed-price item.                                     *)
(***************************************************************************)
Confirmed(tbl) == {w \in DOMAIN tbl : ~tbl[w].waitlisted}
Waitlisted(tbl) == {w \in DOMAIN tbl : tbl[w].waitlisted}

\* C2: after any sequence of signup, adjust and cancel requests the quantities
\* of the non-waitlisted signups sum to at most quantity_total.
C2_ConfirmedWithinCapacity == ConfirmedSum(signups) <= fp_item.quantity_total

\* Confirmed signups fill the item and a request that did not fit was waitlisted.
C2_Witness ==
    /\ ConfirmedSum(signups) = fp_item.quantity_total
    /\ Cardinality(Confirmed(signups)) >= 2
    /\ last.op = "fixed_price_signup" /\ last.result = "waitlisted"
    /\ Max(1, last.amount) <= fp_item.quantity_total

\* C3: between operations, quantity_sold equals the sum of the quantities of
\* the non-waitlisted signups, promotions included.
C3_SoldEqualsConfirmedSum == fp_item.quantity_sold = ConfirmedSum(signups)

\* A cancel or a decrease has just promoted from the waitlist.
C3_Witness ==
    /\ last.result \in {"canceled_promoted", "decreased_promoted"}
    /\ fp_item.quantity_sold >= 2
    /\ Waitlisted(signups) # {}

\* the signups a step takes from waitlisted to confirmed
Promoted == {w \in Waitlisted(signups) : w \in DOMAIN signups' /\ ~signups'[w].waitlisted}

\* a confirmed signup is deleted or lowered by the step
CapacityFreed ==
    \E u \in Confirmed(signups) :
        u \notin DOMAIN signups' \/ signups'[u].quantity < signups[u].quantity

\* capacity left once the event has freed its seats, before any promotion
RemainingAfterFreeing ==
    fp_item.quantity_total
        - SumQuantity(signups', {u \in Confirmed(signups) : u \in DOMAIN signups'})

\* seats of the signups promoted by the step that were created before w
PromotedBefore(w) ==
    SumQuantity(signups, {v \in Promoted : signups[v].created_at < signups[w].created_at})

\* C7: a capacity-freeing event promotes exactly the greedy first-fit selection
\* of the waitlist in created_at order: a waitlisted signup is promoted iff its
\* quantity fits in what remains after the promotions of the earlier ones.
C7_GreedyFirstFitFIFO ==
    [][CapacityFreed =>
          \A w \in Waitlisted(signups) :
              /\ w \in DOMAIN signups'
              /\ w \in Promoted <=>
                    signups[w].quantity <= RemainingAfterFreeing - PromotedBefore(w)
      ]_vars

\* U1 has just decreased 3 -> 2 on a full item of 3 seats: U2 (3 seats, first
\* in the queue) does not fit and is skipped, U3 (1 seat, behind it) is promoted.
C7_Witness ==
    /\ fp_item.quantity_total = 3
    /\ DOMAIN signups = {"U1", "U2", "U3"}
    /\ signups["U1"] = [quantity |-> 2, waitlisted |-> FALSE, created_at |-> 1]
    /\ signups["U2"] = [quantity |-> 3, waitlisted |-> TRUE, created_at |-> 2]
    /\ signups["U3"] = [quantity |-> 1, waitlisted |-> FALSE, created_at |-> 3]
    /\ last.op = "fixed_price_adjust" /\ last.user = "U1"
    /\ last.result = "decreased_promoted"

\* C8: a promotion keeps the signup's quantity, and a signup is promoted only
\* when the capacity remaining at that moment is at least its whole quantity.
C8_NoPartialPromotion ==
    [][\A w \in Promoted :
          /\ signups'[w].quantity = signups[w].quantity
          /\ signups[w].quantity <= RemainingAfterFreeing - PromotedBefore(w)
      ]_vars

\* A cancel has just promoted a waitlisted signup of 2 seats whole.
C8_Witness ==
    /\ last.op = "fixed_price_cancel" /\ last.result = "canceled_promoted"
    /\ Cardinality(DOMAIN signups) = 1
    /\ \E w \in Confirmed(signups) : signups[w].quantity = 2
    /\ fp_item.quantity_sold = 2

(***************************************************************************)
(* Properties of the engine outcome, stated on the stored proxy bids.      *)
(***************************************************************************)
\* seats a stored proxy bid declares
Seats(b) == Max(1, proxies[b].seats)

\* seats declared by the bidders of S
RECURSIVE SeatSum(_)
SeatSum(S) ==
    IF S = {} THEN 0
    ELSE LET b == CHOOSE b \in S : TRUE IN Seats(b) + SeatSum(S \ {b})

\* number of declared units
TotalDemand == SeatSum(DOMAIN proxies)

\* units declared at amount a or more
DemandAtLeast(a) == SeatSum({b \in DOMAIN proxies : proxies[b].max_amount >= a})

\* amount of the k-th highest unit (1 <= k <= TotalDemand)
KthHighest(k) ==
    CHOOSE a \in {proxies[b].max_amount : b \in DOMAIN proxies} :
        /\ DemandAtLeast(a) >= k
        /\ \A c \in DOMAIN proxies :
              proxies[c].max_amount > a => DemandAtLeast(proxies[c].max_amount) < k

\* units that sort before those of b: higher amount, or equal amount stamped earlier
UnitsAhead(b) ==
    SeatSum({c \in DOMAIN proxies \ {b} :
                       \/ proxies[c].max_amount > proxies[b].max_amount
                       \/ /\ proxies[c].max_amount = proxies[b].max_amount
                          /\ proxies[c].updated_at < proxies[b].updated_at})

\* units of b among the first k of the sorted units
SeatsInTop(b, k) ==
    IF b \in DOMAIN proxies THEN Max(0, Min(Seats(b), k - UnitsAhead(b))) ELSE 0

\* the item's opening minimum, 1.00 when it has none
OpeningMinimum ==
    IF bid_item.opening_min_bid = <<>> THEN 100 ELSE bid_item.opening_min_bid[1]

\* the item's bid_increment override when set, the tiered standard increment otherwise
IncrementAt(a) ==
    IF bid_item.bid_increment = <<>> THEN standard_increment(a) ELSE bid_item.bid_increment[1]

\* C11: with more than K units the price is max(opening, min(K-th unit,
\* (K+1)-th unit + inc((K+1)-th unit))), the winners are exactly the top K
\* units and the leader is the bidder of the top unit.
C11_PriceAboveCapacity ==
    TotalDemand > K_total =>
        /\ Engine.price =
              Max(OpeningMinimum,
                  Min(KthHighest(K_total),
                      KthHighest(K_total + 1) + IncrementAt(KthHighest(K_total + 1))))
        /\ \A b \in Users : Engine.winners[b] = SeatsInTop(b, K_total)
        /\ Engine.leader \in DOMAIN proxies
        /\ UnitsAhead(Engine.leader) = 0

\* K = 2 and the 5.00 override: X holds two seats at 20.00, Y asked one at 10.00;
\* the price is 10.00 + 5.00, strictly between the opening minimum and 20.00.
C11_Witness ==
    /\ K_total = 2
    /\ bid_item.bid_increment = <<500>>
    /\ DOMAIN proxies = {"X", "Y"}
    /\ proxies["X"].max_amount = 2000 /\ proxies["X"].seats = 2
    /\ proxies["Y"].max_amount = 1000 /\ proxies["Y"].seats = 1
    /\ Engine.price = 1500
    /\ Engine.winners["X"] = 2 /\ Engine.winners["Y"] = 0

\* C12: with at most K units every unit wins, the price is the opening
\* minimum (1.00 when the item has none), the flag is false and the leader is
\* the bidder of the top unit; with no proxy bid there is no leader and the
\* winners are empty.
C12_OutcomeWithinCapacity ==
    TotalDemand <= K_total =>
        /\ \A b \in Users :
              Engine.winners[b] = IF b \in DOMAIN proxies THEN Seats(b) ELSE 0
        /\ Engine.price = OpeningMinimum
        /\ ~Engine.full
        /\ IF proxies = <<>> THEN Engine.leader = "None"
           ELSE Engine.leader \in DOMAIN proxies /\ UnitsAhead(Engine.leader) = 0

\* K = 2 and no opening minimum: Y has just joined X, one seat each, Y's the higher bid.
C12_Witness ==
    /\ K_total = 2
    /\ bid_item.opening_min_bid = <<>>
    /\ DOMAIN proxies = {"X", "Y"}
    /\ Seats("X") = 1 /\ Seats("Y") = 1
    /\ proxies["Y"].max_amount > proxies["X"].max_amount
    /\ last.op = "place_bid" /\ last.user = "Y" /\ last.result = "ok"
    /\ Engine.leader = "Y" /\ Engine.price = 100

\* C13 as stated: the capacity-exhausted flag is true exactly when the total
\* declared demand meets or exceeds K.
C13_ExhaustedIffDemandAtLeastK == Engine.full <=> TotalDemand >= K_total

\* C13 amended: the capacity-exhausted flag is true exactly when the total
\* declared demand strictly exceeds K; at demand equal to K it is false.
C13_ExhaustedIffDemandAboveK == Engine.full <=> TotalDemand > K_total

\* X has just asked, and been granted, both seats of a two-seat item: demand
\* meets K and the flag is false.
C13_Witness ==
    /\ K_total = 2
    /\ DOMAIN proxies = {"X"}
    /\ Seats("X") = 2
    /\ TotalDemand = K_total
    /\ last.op = "place_bid" /\ last.user = "X" /\ last.result = "ok"
    /\ ~Engine.full

C15_IncrementStepRule ==
    [][(last'.op = "place_bid" /\ bids # <<>>) =>
          LET P == TopBid(bids)[1].amount
          IN  /\ last'.amount < P + standard_increment(P) => last'.wrote = <<>>
              /\ last'.amount >= P + standard_increment(P) => last'.wrote # <<>>
      ]_vars

(***************************************************************************)
(* Properties of the signup, adjust and cancel requests.                   *)
(***************************************************************************)
\* seats not taken by confirmed signups
FreeSeats == fp_item.quantity_total - ConfirmedSum(signups)

\* the signups of everyone but u are as they were
OthersUnchanged(u) ==
    \A w \in DOMAIN signups \ {u} :
        /\ w \in DOMAIN signups'
        /\ signups'[w].quantity = signups[w].quantity
        /\ signups'[w].waitlisted = signups[w].waitlisted

\* C16: a signup request by a user without signup is confirmed, quantity_sold
\* growing by the quantity, iff the capacity minus the confirmed sum is at
\* least the quantity; otherwise the whole quantity is waitlisted and
\* quantity_sold is unchanged.
C16_ConfirmIffFits ==
    [][(last'.op = "fixed_price_signup" /\ last'.user \notin DOMAIN signups) =>
          LET u == last'.user
              qty == Max(1, last'.amount)
          IN  /\ DOMAIN signups' = DOMAIN signups \cup {u}
              /\ signups'[u].quantity = qty
              /\ OthersUnchanged(u)
              /\ IF FreeSeats >= qty
                 THEN /\ ~signups'[u].waitlisted
                      /\ fp_item'.quantity_sold = fp_item.quantity_sold + qty
                 ELSE /\ signups'[u].waitlisted
                      /\ fp_item'.quantity_sold = fp_item.quantity_sold
      ]_vars

\* One seat was free and a request for more has just been waitlisted whole.
C16_Witness ==
    /\ last.op = "fixed_price_signup" /\ last.result = "waitlisted"
    /\ last.user \in DOMAIN signups
    /\ signups[last.user].waitlisted
    /\ signups[last.user].quantity = last.amount
    /\ last.amount >= 2
    /\ FreeSeats = 1
    /\ fp_item.quantity_sold = fp_item.quantity_total - 1

\* C17: a user holds at most one signup on the item: a signup request adds at
\* most the caller's row, and one from a user who already holds a signup
\* returns success and changes no signup and no quantity_sold.
C17_DuplicateSignupNoChange ==
    [][(last'.op = "fixed_price_signup") =>
          /\ DOMAIN signups' \subseteq DOMAIN signups \cup {last'.user}
          /\ last'.user \in DOMAIN signups =>
                /\ last'.result = "exists"
                /\ signups' = signups
                /\ fp_item' = fp_item
      ]_vars

\* A confirmed user has just asked again, for a quantity that is free, and
\* keeps the one signup with its quantity.
C17_Witness ==
    /\ last.op = "fixed_price_signup" /\ last.result = "exists"
    /\ last.user \in DOMAIN signups
    /\ ~signups[last.user].waitlisted
    /\ Max(1, last.amount) # signups[last.user].quantity
    /\ Max(1, last.amount) <= FreeSeats
    /\ fp_item.quantity_sold = ConfirmedSum(signups)

\* C18: an increase of a confirmed signup by delta is applied, quantity_sold
\* growing by delta, iff the capacity minus the confirmed sum is at least
\* delta; otherwise it is rejected and neither the signups nor quantity_sold
\* change.
C18_IncreaseIffFits ==
    [][(/\ last'.op = "fixed_price_adjust"
        /\ last'.user \in DOMAIN signups
        /\ ~signups[last'.user].waitlisted
        /\ Max(1, last'.amount) > signups[last'.user].quantity) =>
          LET u == last'.user
              new_qty == Max(1, last'.amount)
              delta == new_qty - signups[u].quantity
          IN  IF FreeSeats >= delta
              THEN /\ last'.result = "increased"
                   /\ signups' = [signups EXCEPT ![u].quantity = new_qty]
                   /\ fp_item'.quantity_sold = fp_item.quantity_sold + delta
              ELSE /\ last'.result = "rejected"
                   /\ signups' = signups
                   /\ fp_item' = fp_item
      ]_vars

\* One seat is free and a confirmed user's request for two more has just been
\* rejected.
C18_Witness ==
    /\ last.op = "fixed_price_adjust" /\ last.result = "rejected"
    /\ last.user \in DOMAIN signups
    /\ ~signups[last.user].waitlisted
    /\ last.amount = signups[last.user].quantity + 2
    /\ FreeSeats = 1
    /\ fp_item.quantity_sold = ConfirmedSum(signups)

\* C19: an adjust on a waitlisted signup rewrites only that signup's quantity:
\* it stays waitlisted whatever the free capacity, no signup is promoted, and
\* quantity_sold and every other signup are unchanged.
C19_WaitlistedAdjustOnlyQuantity ==
    [][(/\ last'.op = "fixed_price_adjust"
        /\ last'.user \in DOMAIN signups
        /\ signups[last'.user].waitlisted) =>
          /\ signups' = [signups EXCEPT ![last'.user].quantity = Max(1, last'.amount)]
          /\ fp_item' = fp_item
      ]_vars

\* A waitlisted signup has just been lowered to a quantity that the free seats
\* would hold, and it is still waitlisted.
C19_Witness ==
    /\ last.op = "fixed_price_adjust" /\ last.result = "waitlist_updated"
    /\ last.user \in DOMAIN signups
    /\ signups[last.user].waitlisted
    /\ signups[last.user].quantity = Max(1, last.amount)
    /\ signups[last.user].quantity <= FreeSeats
    /\ fp_item.quantity_sold = ConfirmedSum(signups)

(***************************************************************************)
(* Scenario D: a waitlisted signup across successive capacity-freeing      *)
(* operations.                                                             *)
(***************************************************************************)
\* seats the step takes back from the signups that were confirmed before it
FreedSeats ==
    ConfirmedSum(signups)
        - SumQuantity(signups', {u \in Confirmed(signups) : u \in DOMAIN signups'})

\* capacity 4: U1 = 3 and U2 = 1 confirmed, U3 = 2 waitlisted
ScenarioD_Start ==
    /\ fp_item = [quantity_total |-> 4, quantity_sold |-> 4]
    /\ DOMAIN signups = {"U1", "U2", "U3"}
    /\ signups["U1"] = [quantity |-> 3, waitlisted |-> FALSE, created_at |-> 1]
    /\ signups["U2"] = [quantity |-> 1, waitlisted |-> FALSE, created_at |-> 2]
    /\ signups["U3"] = [quantity |-> 2, waitlisted |-> TRUE, created_at |-> 3]

\* the same after U1 has decreased to 2
ScenarioD_AfterDecrease ==
    /\ fp_item = [quantity_total |-> 4, quantity_sold |-> 3]
    /\ DOMAIN signups = {"U1", "U2", "U3"}
    /\ signups["U1"] = [quantity |-> 2, waitlisted |-> FALSE, created_at |-> 1]
    /\ signups["U2"] = [quantity |-> 1, waitlisted |-> FALSE, created_at |-> 2]
    /\ signups["U3"] = [quantity |-> 2, waitlisted |-> TRUE, created_at |-> 3]

\* C20: a capacity-freeing operation leaves waitlisted every signup whose
\* quantity exceeds the capacity it leaves, and promotes a waitlisted signup as
\* soon as its quantity fits in the capacity remaining when its turn comes;
\* quantity_sold goes down by the freed seats and up by the promoted
\* quantities.  With capacity 4, U1 = 3 and U2 = 1 confirmed and U3 = 2
\* waitlisted: U1 decreasing to 2 gives sold 3 with U3 still waitlisted, and U2
\* cancelling then gives U3 confirmed and sold 4.
C20_PromotedWhenCapacitySuffices ==
    [][/\ CapacityFreed =>
             /\ \A w \in Waitlisted(signups) :
                   /\ signups[w].quantity > RemainingAfterFreeing =>
                         (w \in DOMAIN signups' /\ signups'[w].waitlisted)
                   /\ signups[w].quantity <= RemainingAfterFreeing - PromotedBefore(w) =>
                         w \in Promoted
             /\ fp_item'.quantity_sold =
                   fp_item.quantity_sold - FreedSeats + SumQuantity(signups, Promoted)
             /\ \A w \in Waitlisted(signups') :
                   signups'[w].quantity > fp_item.quantity_total - fp_item'.quantity_sold
       /\ (/\ ScenarioD_Start
           /\ last'.op = "fixed_price_adjust" /\ last'.user = "U1" /\ last'.amount = 2) =>
             ScenarioD_AfterDecrease'
       /\ (/\ ScenarioD_AfterDecrease
           /\ last'.op = "fixed_price_cancel" /\ last'.user = "U2") =>
             /\ fp_item' = [quantity_total |-> 4, quantity_sold |-> 4]
             /\ DOMAIN signups' = {"U1", "U3"}
             /\ signups'["U1"].quantity = 2 /\ ~signups'["U1"].waitlisted
             /\ signups'["U3"].quantity = 2 /\ ~signups'["U3"].waitlisted
      ]_vars

\* The end of Scenario D: U2 has just cancelled, U3 is confirmed with its 2
\* seats beside U1's 2, and all 4 seats are sold.
C20_Witness ==
    /\ last.op = "fixed_price_cancel" /\ last.user = "U2"
    /\ last.result = "canceled_promoted"
    /\ fp_item = [quantity_total |-> 4, quantity_sold |-> 4]
    /\ DOMAIN signups = {"U1", "U3"}
    /\ signups["U1"] = [quantity |-> 2, waitlisted |-> FALSE, created_at |-> 1]
    /\ signups["U3"] = [quantity |-> 2, waitlisted |-> FALSE, created_at |-> 2]

(***************************************************************************)
(* Properties of bid intake when capacity is exhausted.                    *)
(***************************************************************************)
\* C21: when capacity was exhausted before a submission and the bidder is not
\* among the winners after it, a maximum below the previous public price plus
\* its increment is rejected and writes no audit row, whether the bidder had a
\* proxy bid before or not.
C21_BelowMinNextRejected ==
    [][(/\ last'.op = "place_bid"
        /\ Engine.full
        /\ SeatsInTop(last.user, K_total)' = 0
        /\ last'.amount < Engine.price + IncrementAt(Engine.price)) =>
          /\ last'.result = "below_min_next"
          /\ last'.wrote = <<>>
          /\ bids' = bids
      ]_vars

\* C22: a place_bid rejected in validation (below the opening minimum, or
\* below the required minimum when exhausted) keeps the proxy-bid upsert made
\* before validation: afterwards the bidder has a proxy bid holding the larger
\* of the standing and the submitted maximum and a seat count in 1..K, every
\* other proxy bid is as before, and no audit row is written.
C22_RejectedKeepsUpsert ==
    [][(/\ last'.op = "place_bid"
        /\ last'.result \in {"below_opening", "below_min_next"}) =>
          LET u == last'.user
          IN  /\ DOMAIN proxies' = DOMAIN proxies \cup {u}
              /\ proxies'[u].max_amount =
                    IF u \in DOMAIN proxies
                    THEN Max(proxies[u].max_amount, last'.amount)
                    ELSE last'.amount
              /\ proxies'[u].seats \in 1..K_total
              /\ \A b \in DOMAIN proxies \ {u} :
                    /\ proxies'[b].max_amount = proxies[b].max_amount
                    /\ proxies'[b].seats = proxies[b].seats
              /\ last'.wrote = <<>>
              /\ bids' = bids
      ]_vars

\* The only proxy bid of the item was created by a submission below the opening
\* minimum, which was rejected: the proxy bid is stored and no audit row exists.
C22_Witness ==
    /\ last.op = "place_bid" /\ last.result = "below_opening"
    /\ DOMAIN proxies = {last.user}
    /\ proxies[last.user].max_amount = last.amount
    /\ last.amount < OpeningMinimum
    /\ bids = <<>>

(***************************************************************************)
(* The audit trail against the engine outcome.                             *)
(***************************************************************************)
\* public price of the stored proxy bids
OutcomePrice ==
    IF TotalDemand > K_total
    THEN Max(OpeningMinimum,
             Min(KthHighest(K_total),
                 KthHighest(K_total + 1) + IncrementAt(KthHighest(K_total + 1))))
    ELSE OpeningMinimum

\* bidder of the top unit of the stored proxy bids
OutcomeLeader ==
    IF proxies = <<>> THEN "None"
    ELSE CHOOSE b \in DOMAIN proxies : UnitsAhead(b) = 0

\* the two agree with compute_current_state on every reachable table
OutcomeIsEngine ==
    /\ Engine.price = OutcomePrice
    /\ Engine.leader = OutcomeLeader

\* C23: a non-rejected place_bid appends one audit row, for the new leader at
\* the new public price, if the engine outcome after the upsert differs from
\* the outcome before it in leader or in price, and appends none if both are
\* unchanged.
C23_AuditRowIffOutcomeChanged ==
    [][(last'.op = "place_bid" /\ last'.result = "ok") =>
          IF OutcomeLeader' # OutcomeLeader \/ OutcomePrice' # OutcomePrice
          THEN last'.wrote = <<BidRow(OutcomeLeader', OutcomePrice')>>
          ELSE last'.wrote = <<>>
      ]_vars

(***************************************************************************)
(* The tier table of standard_increment.                                   *)
(***************************************************************************)
\* C24: standard_increment returns 1 below 25, 5 from 25 to below 100, 10 from
\* 100 to below 250, 25 from 250 to below 500, 50 from 500 to below 1000 and
\* 100 from 1000 on; each boundary belongs to the higher tier and a null price
\* counts as 0.
C24_TierTable ==
    last.op = "standard_increment" =>
        LET p == IF last.amount = <<>> THEN 0 ELSE last.amount[1]
            r == last.wrote[1]
        IN  /\ p < 2500 => r = 100
            /\ (2500 <= p /\ p < 10000) => r = 500
            /\ (10000 <= p /\ p < 25000) => r = 1000
            /\ (25000 <= p /\ p < 50000) => r = 2500
            /\ (50000 <= p /\ p < 100000) => r = 5000
            /\ 100000 <= p => r = 10000

\* standard_increment has just returned 5 for a price of exactly 25.
C24_Witness ==
    /\ last.op = "standard_increment"
    /\ last.amount = <<2500>>
    /\ last.wrote = <<500>>

(***************************************************************************)
(* Properties of the views' checks on the item and on the posted fields.   *)
(***************************************************************************)
\* C26: a place_bid on an item that is not published or is of the fixed-price
\* type, and a signup on an item that is not a published fixed-price item, is
\* rejected and changes no proxy bid, audit row, signup or item field.
C26_GateRejectsWithoutChange ==
    [][/\ (/\ last'.op = "place_bid"
           /\ (bid_item.status # "published" \/ bid_item.type = "fixed")) =>
             /\ last'.result = "not_allowed"
             /\ UNCHANGED <<bid_item, proxies, bids, fp_item, signups>>
       /\ (/\ last'.op = "fixed_price_signup"
           /\ ~(fp_item.status = "published" /\ fp_item.type = "fixed")) =>
             /\ last'.result = "not_allowed"
             /\ UNCHANGED <<bid_item, proxies, bids, fp_item, signups>>
      ]_vars

\* A bid on a published fixed-price item has just been refused and no proxy
\* bid was stored.
C26_Witness ==
    /\ last.op = "place_bid" /\ last.result = "not_allowed"
    /\ bid_item.status = "published" /\ bid_item.type = "fixed"
    /\ proxies = <<>> /\ bids = <<>>

\* C27: a bid submission whose amount or seat input is not a number is
\* rejected with a validation error and changes no state: no proxy bid is
\* created or modified and no audit row is written.  (Every submission of
\* MalformedSeatsSpec carries a non-numeric seat input.)
C27_MalformedInputRejected ==
    [][last'.op = "place_bid" =>
          /\ last'.result = "invalid_amount"
          /\ proxies' = proxies
          /\ bids' = bids
      ]_vars

(***************************************************************************)
(* Publication.                                                            *)
(***************************************************************************)
\* the account is staff, superuser or in the Manager group
ManagerRole(name) ==
    \/ Accounts[name].is_staff
    \/ Accounts[name].is_superuser
    \/ "Manager" \in Accounts[name].groups

\* C28: manager_publish_item sets an item's status to published only when the
\* caller is a manager (staff, superuser or member of the Manager group) and
\* the item is draft, and then it does; for any other caller or any non-draft
\* item the status is left unchanged.
C28_PublishOnlyManagerOnDraft ==
    [][last'.op = "manager_publish_item" =>
          LET slug == last'.amount
              allowed == ManagerRole(last'.user) /\ ItemOf(slug).status = "draft"
          IN  /\ bid_item' = IF allowed /\ slug = 1
                             THEN [bid_item EXCEPT !.status = "published"]
                             ELSE bid_item
              /\ fp_item' = IF allowed /\ slug = 2
                            THEN [fp_item EXCEPT !.status = "published"]
                            ELSE fp_item
      ]_vars

\* A member of the Manager group has just published the draft bidding item; the
\* fixed-price item is still a draft.
C28_Witness ==
    /\ last.op = "manager_publish_item" /\ last.user = "manager"
    /\ last.amount = 1 /\ last.result = "published"
    /\ bid_item.status = "published"
    /\ fp_item.status = "draft"

(***************************************************************************)
(* Seats of the stored proxy bids.                                         *)
(***************************************************************************)
\* the count a posted quantity field asks for: 1 when the field is omitted
RequestedCount(q) == IF q = "2" THEN 2 ELSE 1

\* C29: every stored proxy bid has 1 <= seats <= K, and each place_bid sets the
\* bidder's seats to the requested count clamped to [1, K] (1 when the quantity
\* is omitted), also when the submitted amount does not exceed the standing
\* maximum.
C29_SeatsClamped ==
    [][/\ \A b \in DOMAIN proxies' :
             1 <= proxies'[b].seats /\ proxies'[b].seats <= K_total
       /\ \A u \in GateBidders, a \in QuantityAmounts, q \in PostedQuantities :
             place_bid_request(u, a, q) =>
                proxies'[u].seats = Max(1, Min(RequestedCount(q), K_total))
      ]_vars

\* On a two-seat item a bidder holding two seats has just submitted an amount
\* below the standing maximum.
C29_Witness ==
    /\ K_total = 2
    /\ last.op = "place_bid"
    /\ last.user \in DOMAIN proxies
    /\ last.amount < proxies[last.user].max_amount
    /\ proxies[last.user].seats = 2

(***************************************************************************)
(* Cancellation.                                                           *)
(***************************************************************************)
\* C30: cancel deletes the caller's signup; if that signup was waitlisted,
\* quantity_sold and the quantity and waitlisted flag of every other signup
\* are unchanged and nothing is promoted; if the caller has no signup, nothing
\* changes.
C30_CancelFrame ==
    [][last'.op = "fixed_price_cancel" =>
          LET u == last'.user
          IN  /\ DOMAIN signups' = DOMAIN signups \ {u}
              /\ u \notin DOMAIN signups =>
                    /\ signups' = signups
                    /\ fp_item' = fp_item
              /\ (u \in DOMAIN signups /\ signups[u].waitlisted) =>
                    /\ fp_item' = fp_item
                    /\ \A w \in DOMAIN signups' :
                          /\ signups'[w].quantity = signups[w].quantity
                          /\ signups'[w].waitlisted = signups[w].waitlisted
      ]_vars

\* A cancel has just left another signup on the waitlist although its quantity
\* fits the free seats: the cancelled signup was a waitlisted one.
C30_Witness ==
    /\ last.op = "fixed_price_cancel" /\ last.result = "canceled"
    /\ last.user \notin DOMAIN signups
    /\ \E w \in Waitlisted(signups) : signups[w].quantity <= FreeSeats
    /\ fp_item.quantity_sold = ConfirmedSum(signups)

\* C25: concurrent requests on one item are serialized.  Whenever a worker's
\* transaction ends, either it failed on the database lock and changed no row,
\* or the rows it read when it took the item are still the rows of the
\* database, so that its write is the handler applied to the fully applied
\* result of the previous request; and under row locks no two transactions
\* are open on the same item.
C25_SerializedByItemLock ==
    [][/\ \A w \in Workers :
             (InTransaction(w) /\ inflight'.tx[w] = <<>>) =>
                \/ /\ last'.result = "error"
                   /\ UNCHANGED <<bid_item, proxies, bids, fp_item, signups>>
                \/ inflight.tx[w][1].seen = RowsRead(inflight.tx[w][1].request.slug)
       /\ inflight.backend = "row_lock" =>
             \A w \in Workers : InTransaction(w) =>
                OthersOn(w, inflight.tx[w][1].request.slug) = {}
      ]_vars

\* Under row locks Y's signup has committed, and X, whose signup on the same
\* item began afterwards, has read Y's row.
C25_Witness ==
    /\ inflight.backend = "row_lock"
    /\ last.op = "fixed_price_signup" /\ last.user = "Y" /\ last.result = "confirmed"
    /\ InTransaction("X")
    /\ inflight.tx["X"][1].request.op = "fixed_price_signup"
    /\ "Y" \in DOMAIN inflight.tx["X"][1].seen.rows
    /\ inflight.tx["X"][1].seen.rows = signups

\* C33: every bidder holding a seat in the winners map has a stored max_amount
\* of at least the current public price.
C33_WinnersCoverPrice ==
    \A b \in DOMAIN proxies :
        Engine.winners[b] > 0 => proxies[b].max_amount >= Engine.price

\* C34: on an item with at least one audit row, between submissions, the top
\* audit row carries the engine's current public price and current leader.
C34_TopRowIsOutcome ==
    bids # <<>> =>
        /\ TopBid(bids)[1].amount = Engine.price
        /\ TopBid(bids)[1].bidder = Engine.leader

\* C35: the public price never decreases over place_bid submissions (K, the
\* opening minimum and the increment policy do not change).
C35_PriceNeverDecreases ==
    [][last'.op = "place_bid" => OutcomePrice' >= OutcomePrice]_vars


\* C35 as the code has it: the public price never decreases over a place_bid
\* submission that does not lower the submitter's seat count.
C35_PriceNeverDecreasesUnlessSeatsLowered ==
    [][(/\ last'.op = "place_bid"
        /\ last'.user \in DOMAIN proxies =>
              proxies'[last'.user].seats >= proxies[last'.user].seats) =>
          OutcomePrice' >= OutcomePrice
      ]_vars

\* A submission has just been accepted with capacity exhausted, at a public
\* price above the opening minimum, and its audit row carries that price.
C35_Witness ==
    /\ last.op = "place_bid" /\ last.result = "ok"
    /\ Engine.full
    /\ OutcomePrice > OpeningMinimum
    /\ last.wrote = <<BidRow(OutcomeLeader, OutcomePrice)>>


\* C36: a place_bid submission that does not lower the submitter's seat count
\* never reduces the number of seats the submitter is winning.
C36_OwnBidKeepsSeatsWon ==
    [][\A u \in DOMAIN proxies :
          (/\ last'.op = "place_bid" /\ last'.user = u
           /\ proxies'[u].seats >= proxies[u].seats) =>
              SeatsInTop(u, K_total)' >= SeatsInTop(u, K_total)
      ]_vars


\* C37: a place_bid submission whose amount is not above the bidder's standing
\* maximum and whose seats equal the stored seats leaves the bidder's ProxyBid
\* unchanged, updated_at included, and with it every other ProxyBid.
C37_UnchangedSubmissionKeepsRow ==
    [][\A u \in DOMAIN proxies :
          (/\ last'.op = "place_bid" /\ last'.user = u
           /\ last'.amount <= proxies[u].max_amount
           /\ proxies'[u].seats = proxies[u].seats) =>
              proxies' = proxies
      ]_vars

\* On a single-seat item Y, whose maximum equals X's and was stored earlier,
\* has just submitted a lower amount and still ranks before X.
C37_Witness ==
    /\ K_total = 1
    /\ last.op = "place_bid" /\ last.user = "Y"
    /\ DOMAIN proxies = {"X", "Y"}
    /\ last.amount < proxies["Y"].max_amount
    /\ proxies["X"].max_amount = proxies["Y"].max_amount
    /\ proxies["Y"].updated_at < proxies["X"].updated_at


\* C38: between requests, every waitlisted signup asks for more seats than the
\* capacity left by the confirmed signups.
C38_NoWaitlistedSignupFits ==
    \A w \in Waitlisted(signups) : signups[w].quantity > FreeSeats


\* C39: no new signup is created as confirmed, and no increase of a confirmed
\* signup is applied, while an existing signup of the item is waitlisted.
C39_NoSeatsAheadOfQueue ==
    [][(\/ last'.op = "fixed_price_signup" /\ last'.result = "confirmed"
        \/ last'.op = "fixed_price_adjust" /\ last'.result = "increased") =>
          Waitlisted(signups) = {}
      ]_vars


\* the step is a capacity-freeing event: a confirmed signup was canceled or
\* decreased
CapacityFreeingStep ==
    \/ last'.op = "fixed_price_adjust"
          /\ last'.result \in {"decreased", "decreased_promoted"}
    \/ last'.op = "fixed_price_cancel"
          /\ last'.result \in {"canceled", "canceled_promoted"}
          /\ last'.user \in Confirmed(signups)

\* C38 as the code has it: after every capacity-freeing event no waitlisted
\* signup fits the remaining capacity, and from a state where none fits only
\* an adjust of a waitlisted signup leads to a state where one does.
C38_NoWaitlistedSignupFitsAfterFreeing ==
    [][/\ CapacityFreeingStep => C38_NoWaitlistedSignupFits'
       /\ (C38_NoWaitlistedSignupFits /\ ~C38_NoWaitlistedSignupFits') =>
             /\ last'.op = "fixed_price_adjust" /\ last'.result = "waitlist_updated"
             /\ last'.user \in Waitlisted(signups)
      ]_vars

\* A confirmed signup has just been decreased; seats are free and the signup
\* still waitlisted asks for more than are free.
C38_Witness ==
    /\ last.op = "fixed_price_adjust" /\ last.result = "decreased"
    /\ FreeSeats > 0
    /\ Waitlisted(signups) # {}
    /\ \A w \in Waitlisted(signups) : signups[w].quantity > FreeSeats


\* seats the latest request granted to its caller
SeatsGranted ==
    LET u == last'.user
    IN IF u \in DOMAIN signups THEN signups'[u].quantity - signups[u].quantity
       ELSE signups'[u].quantity

\* C39 as the code has it: the waitlist does not block a later request.  A new
\* signup is confirmed, or an increase applied, while signups are waitlisted
\* exactly as without them: the seats granted fit the remaining capacity, and
\* every waitlisted signup stays waitlisted with its quantity and its place.
C39_GrantFitsAndQueueKept ==
    [][(\/ last'.op = "fixed_price_signup" /\ last'.result = "confirmed"
        \/ last'.op = "fixed_price_adjust" /\ last'.result = "increased") =>
          /\ SeatsGranted >= 1
          /\ SeatsGranted <= FreeSeats
          /\ \A w \in Waitlisted(signups) : signups'[w] = signups[w]
          /\ Waitlisted(signups') = Waitlisted(signups)
      ]_vars

\* U2 was waitlisted for more seats than are free; U3, who came later, has
\* just been confirmed.
C39_Witness ==
    /\ last.op = "fixed_price_signup" /\ last.result = "confirmed"
    /\ Waitlisted(signups) # {}
    /\ \E w \in Waitlisted(signups) :
          signups[w].created_at < signups[last.user].created_at


\* C40: once the item's status is no longer published no ProxyBid is created
\* or modified and no audit row is written, whatever the interleaving of
\* place_bid with the end of the live phase.
C40_NoBidAfterPublished ==
    [][bid_item.status # "published" => proxies' = proxies /\ bids' = bids]_vars


\* C32: when a transaction of place_bid, signup, adjust or cancel ends on an
\* exception, the caller gets the handler's error and the item, its proxy
\* bids, audit rows, signups and quantity_sold are as they were when the
\* operation began; no other item's rows change in that step.
C32_FailureLeavesNoWrite ==
    [][\A w \in Workers :
          (/\ InTransaction(w) /\ inflight'.tx[w] = <<>>
           /\ last'.result = "error") =>
              /\ last'.user = w /\ last'.op = inflight.tx[w][1].request.op
              /\ IF inflight.tx[w][1].request.slug = 1
                 THEN /\ bid_item' = inflight.tx[w][1].seen.item
                      /\ proxies' = inflight.tx[w][1].seen.rows
                      /\ bids' = inflight.tx[w][1].seen.audit
                      /\ UNCHANGED <<fp_item, signups>>
                 ELSE /\ fp_item' = inflight.tx[w][1].seen.item
                      /\ signups' = inflight.tx[w][1].seen.rows
                      /\ UNCHANGED <<bid_item, proxies, bids>>
      ]_vars

\* X's signup has ended on a storage failure beside Y's confirmed signup: X
\* has no signup, quantity_sold counts Y's seats only, and X was told to try
\* again.
C32_Witness ==
    /\ last.op = "fixed_price_signup" /\ last.user = "X" /\ last.result = "error"
    /\ DOMAIN signups = {"Y"}
    /\ ~signups["Y"].waitlisted
    /\ fp_item.quantity_sold = signups["Y"].quantity
    /\ ~InTransaction("X")


\* C31: the item row is locked before any row of the item, so no set of
\* concurrent requests deadlocks: a transaction that holds locks of an item
\* while another holds the item row does not exist, and under fair lock
\* scheduling every started request ends and releases its locks.
C31_EveryRequestCompletes ==
    /\ [](inflight.backend = "row_lock" =>
            \A w \in Workers :
               (InTransaction(w) /\ inflight.tx[w][1].rows_locked) =>
                  /\ inflight.tx[w][1].item_locked
                  /\ ~ItemHeldByOther(w, inflight.tx[w][1].request.slug))
    /\ \A w \in Workers : InTransaction(w) ~> ~InTransaction(w)

\* Under row locks X holds the bidding item and its ProxyBid rows while Y,
\* started on the same item, holds nothing yet.
C31_Witness ==
    /\ inflight.backend = "row_lock"
    /\ InTransaction("X") /\ InTransaction("Y")
    /\ inflight.tx["X"][1].request.op = "place_bid"
    /\ inflight.tx["X"][1].request.slug = inflight.tx["Y"][1].request.slug
    /\ inflight.tx["X"][1].item_locked /\ inflight.tx["X"][1].rows_locked
    /\ ~inflight.tx["Y"][1].item_locked

====
